---- MODULE Spec2Model ----
(***************************************************************************)
(* Renko backtest core of renko-algo: the brick generator                  *)
(* (src/src/renko_generator.py), the signal generator and the portfolio    *)
(* simulator (src/src/strategy.py).                                        *)
(*                                                                         *)
(* Prices are integers (currency units); money amounts of the portfolio    *)
(* simulator are integers in 1/1000 of a currency unit, which makes both   *)
(* commission rates exact on lot-sized trades at integer prices.           *)
(* Python's 0-based positions are kept: row k of a frame is element k+1    *)
(* of the sequence that models it.                                         *)
(***************************************************************************)
EXTENDS Integers, Sequences, FiniteSets, TLC

\* ------------------------------------------------------------------ bounds
\* Longest bar series given to generate_renko.
MaxBars == 4
\* Close prices the bars are drawn from.
Closes == {98, 100, 102, 103}
\* Brick sizes supplied by the user in atr mode.
BrickSizes == {1, 2}
\* Longest brick frame given directly to calculate_signals and to backtest.
MaxBricks == 4
\* Largest buy_trend_length / sell_trend_length.
MaxTrendLength == 3
\* Largest atr_period.
MaxAtrPeriod == 3
\* Values of atr_multiplier, in halves (0.5 and 1.0).
AtrMultipliers == {1, 2}
\* Longest bar series given to a generator whose construction is modelled.
MaxNewBars == 2
\* Brick closes of the frames given directly to backtest.
BtCloses == {1, 2, 3}
\* Initial capitals of backtest, in currency units.
Capitals == {50, 100, 250}

VARIABLES
    mode,           \* RenkoGenerator.mode: "daily" or "atr"
    brick_size,     \* RenkoGenerator.brick_size when size_kind = "number"
                    \* (0 otherwise)
    size_kind,      \* what brick_size holds: "none" (None), "number", or
                    \* "nan" (the float NaN)
    atr_period,     \* RenkoGenerator.atr_period
    atr_multiplier, \* RenkoGenerator.atr_multiplier, counted in halves
    exc,            \* the exception that left the call when pc = "raised"
    data,           \* the bar frame: sequence of [date, Close], with High
                    \* and Low where the brick size is computed from them
    pc,             \* position of the run: "new" (RenkoGenerator.__init__),
                    \* "start", "loop", "brick", "done"
                    \* (generate_renko), "sig_start", "sig_loop", "sig_done"
                    \* (calculate_signals), "bt_start", "bt_loop", "bt_done"
                    \* (backtest), "opt_start" (run_optimization),
                    \* "opt_wait" (the main thread waits for the tasks),
                    \* "raised" (an exception left the call), "db_idle"
                    \* (between the calls on a DataBase), "fetch_idle"
                    \* (between the calls on a DataFetcher)
    i,              \* loop variable i of the running function (0-based row)
    current_price,  \* reference price of _generate_renko
    index,          \* running brick index of _generate_renko
    renko_data,     \* the brick list / the brick frame given to the strategy
    num_bricks,     \* iterations left of the inner loop of _atr_brick_logic
    direction,      \* direction of the inner loop of _atr_brick_logic
    buy_trend_length,   \* RenkoStrategy.buy_trend_length
    sell_trend_length,  \* RenkoStrategy.sell_trend_length
    signals,        \* the signal frame of calculate_signals
    position,       \* local position of calculate_signals (0 flat, 1 long)
    initial_capital,    \* argument of backtest, in 1/1000 currency units
    portfolio,      \* the portfolio frame of backtest
    runs,           \* what the earlier calls of the caller returned, oldest
                    \* first: their bars and their outcome
    config,         \* BacktestOptimizer.config: the grid and its limits
    tasks,          \* local tasks of run_optimization
    results,        \* BacktestOptimizer.results
    queue,          \* the submitted tasks no pool thread has taken yet
    threads,        \* per pool thread: its position in the worker method
                    \* ("idle", "run", "wait", "locked", "appended") and
                    \* its task
    results_lock,   \* the thread holding BacktestOptimizer.results_lock,
                    \* 0 when it is free
    data_cache,     \* DataFetcher.data_cache: entries [key, frame]
    db,             \* the database of DataBase: the interval tables that
                    \* exist and the rows [table, symbol, date, value, stamp]
    files,          \* the CSV cache files: entries [key, frame]
    use_db_cache,   \* DataFetcher.use_db_cache
    use_csv_cache,  \* DataFetcher.use_csv_cache
    query_method,   \* DataFetcher.query_method
    last_call       \* the last call made on the fetcher or the database:
                    \* operation, arguments, what it accessed in which
                    \* order, and what it returned or raised

poolVars == <<queue, threads, results_lock>>
optVars == <<config, tasks, results, poolVars>>
fetchVars == <<data_cache, db, files, use_db_cache, use_csv_cache,
               query_method, last_call>>
cfgVars == <<atr_period, atr_multiplier, runs, optVars, fetchVars>>
genVars == <<mode, brick_size, size_kind, cfgVars, data, current_price, index,
             num_bricks, direction>>
sigVars == <<buy_trend_length, sell_trend_length, signals, position>>
btVars == <<initial_capital, portfolio>>

vars == <<genVars, sigVars, btVars, pc, exc, i, renko_data>>

\* The state of a run without an optimizer.
NoOptimizer ==
    /\ config = [atr_periods |-> <<>>, atr_multipliers |-> <<>>,
                 trend_lengths |-> <<>>, max_iterations |-> 0,
                 max_threads |-> 0]
    /\ tasks = <<>>
    /\ results = <<>>
    /\ queue = <<>>
    /\ threads = <<>>
    /\ results_lock = 0

\* The state of a run without a data fetcher and a database.
NoFetcher ==
    /\ data_cache = {}
    /\ db = [tables |-> {}, rows |-> {}]
    /\ files = {}
    /\ use_db_cache = FALSE
    /\ use_csv_cache = FALSE
    /\ query_method = "none"
    /\ last_call = [op |-> "none"]

\* ----------------------------------------------------------------- helpers
Abs(x) == IF x < 0 THEN -x ELSE x
Max(a, b) == IF a >= b THEN a ELSE b
Min(a, b) == IF a <= b THEN a ELSE b
Last(s) == s[Len(s)]
Front(s) == SubSeq(s, 1, Len(s) - 1)

\* TruncDiv rounding away from zero.
TruncDivAway(a, b) ==
    IF a >= 0 THEN (a + b - 1) \div b ELSE -((-a + b - 1) \div b)

\* int(a / b) of Python for b > 0: the quotient truncated toward zero.
TruncDiv(a, b) == IF a >= 0 THEN a \div b ELSE -((-a) \div b)

\* Bar frames of n rows: closes from Closes, dates non-decreasing (a row's
\* date is the previous row's date or the day after it).
RECURSIVE DateOf(_, _)
DateOf(steps, k) == IF k = 0 THEN 0 ELSE DateOf(steps, k - 1) + steps[k]

Frames(n) ==
    { [k \in 1..n |-> [date |-> DateOf(steps, k), Close |-> cs[k]]] :
        cs \in [1..n -> Closes],
        steps \in {s \in [1..n -> {0, 1}] : n = 0 \/ s[1] = 1} }

\* Bar frames with High and Low, for the runs that size the brick from the
\* ATR.  Prices lie on a grid of Tick, which makes the mean over up to
\* MaxAtrPeriod rows times a multiple of one half an integer.
RECURSIVE Factorial(_)
Factorial(n) == IF n <= 1 THEN 1 ELSE n * Factorial(n - 1)

Tick == 2 * Factorial(MaxAtrPeriod)
AtrCloses == {25 * Tick, 26 * Tick}
AtrSpreads == {0, Tick}

AtrFrames(n) ==
    { [k \in 1..n |-> [date |-> k, Close |-> cs[k],
                       High |-> cs[k] + sp[k], Low |-> cs[k] - sp[k]]] :
        cs \in [1..n -> AtrCloses], sp \in [1..n -> AtrSpreads] }

\* ------------------------------------------------------- RenkoGenerator
\* The true range of 1-based row k (lines 160-164): close.shift() is NaN on
\* the first row and max(axis=1) skips NaN, so that row's range is High - Low.
TrueRange(d, k) ==
    LET tr1 == d[k].High - d[k].Low
    IN  IF k = 1 THEN tr1
        ELSE Max(tr1, Max(Abs(d[k].High - d[k - 1].Close),
                          Abs(d[k].Low - d[k - 1].Close)))

RECURSIVE SumTrueRange(_, _, _)
SumTrueRange(d, from, to) ==
    IF from > to THEN 0 ELSE TrueRange(d, to) + SumTrueRange(d, from, to - 1)

\* What tr.rolling(atr_period).mean().iloc[-1] is on a frame with rows
\* (line 166): NaN while the frame has fewer than atr_period rows.
AtrKind(d, period) == IF Len(d) < period THEN "nan" ELSE "number"

\* _calculate_atr when the mean is a number: the mean of the last atr_period
\* true ranges times atr_multiplier (in halves).
calculate_atr(d, period, multiplier) ==
    (SumTrueRange(d, Len(d) - period + 1, Len(d)) * multiplier) \div (2 * period)

\* ZeroSizeAborts with the test dropped.
ZeroSizeAbortsNever(size) == FALSE

\* The zero test of generate_renko on the computed size (line 56).
ZeroSizeAborts(size) == size = 0

\* _make_brick
make_brick(idx, date, open_, high, low, close, trend) ==
    [index |-> idx, date |-> date, open |-> open_, high |-> high,
     low |-> low, close |-> close, trend |-> trend]

\* MergesWithLast never matching.
MergesWithLastNever(rd, close_price) == FALSE

\* The merge test of _atr_brick_logic (line 110).
MergesWithLast(rd, close_price) ==
    /\ rd # <<>>
    /\ (close_price = Last(rd).open \/ close_price = Last(rd).close)

\* AtrStepList with the merge test dropped: the last brick is always popped.
AtrStepListAlwaysPop(rd, brick) ==
    Append(IF rd # <<>> THEN Front(rd) ELSE rd, brick)

\* One iteration of the inner loop of _atr_brick_logic on the brick list
\* (lines 110-112): the pop is conditional, the append is not.
AtrStepList(rd, brick) ==
    Append(IF MergesWithLast(rd, brick.close) THEN Front(rd) ELSE rd, brick)

\* IncompleteNeeded testing the prices instead of the dates.
IncompleteNeededByPrice(rd, d) == Last(rd).close # Last(d).Close

\* The date test of _append_incomplete_brick (line 123).
IncompleteNeeded(rd, d) == Last(rd).date # Last(d).date

\* IncompleteCalled without the test of the mode.
IncompleteCalledAnyMode(m, rd) == rd # <<>>

\* The guard of the call in _generate_renko (line 79).
IncompleteCalled(m, rd) == m = "atr" /\ rd # <<>>

\* append_incomplete_brick dating the brick with the first bar.
append_incomplete_brick_first_date(d, rd, idx) ==
    IF IncompleteNeeded(rd, d)
    THEN LET last_brick_price == Last(rd).close
             last_k_price == Last(d).Close
         IN  Append(rd, make_brick(idx, d[1].date, last_brick_price,
                                   Max(last_brick_price, last_k_price),
                                   Min(last_brick_price, last_k_price),
                                   last_k_price, 0))
    ELSE rd

\* append_incomplete_brick opening the brick at the close of the bar before
\* the last one.
append_incomplete_brick_from_bar(d, rd, idx) ==
    IF IncompleteNeeded(rd, d)
    THEN LET last_bar_price == d[Len(d) - 1].Close
             last_k_price == Last(d).Close
         IN  Append(rd, make_brick(idx, Last(d).date, last_bar_price,
                                   Max(last_bar_price, last_k_price),
                                   Min(last_bar_price, last_k_price),
                                   last_k_price, 0))
    ELSE rd

\* _append_incomplete_brick
append_incomplete_brick(d, rd, idx) ==
    IF IncompleteNeeded(rd, d)
    THEN LET last_brick_price == Last(rd).close
             last_k_price == Last(d).Close
         IN  Append(rd, make_brick(idx, Last(d).date, last_brick_price,
                                   Max(last_brick_price, last_k_price),
                                   Min(last_brick_price, last_k_price),
                                   last_k_price, 0))
    ELSE rd

\* State after construction: the configuration is validated, no bar is read.
\* In atr mode the brick size is supplied.
InitGen ==
    /\ mode \in {"daily", "atr"}
    /\ brick_size \in (IF mode = "atr" THEN BrickSizes ELSE {0})
    /\ size_kind = (IF mode = "atr" THEN "number" ELSE "none")
    /\ atr_period = 1
    /\ atr_multiplier = 1
    /\ exc = "none"
    /\ runs = <<>>
    /\ NoOptimizer
    /\ NoFetcher
    /\ data \in UNION {Frames(n) : n \in 0..MaxBars}
    /\ pc = "start"
    /\ i = 0
    /\ current_price = 0
    /\ index = 0
    /\ renko_data = <<>>
    /\ num_bricks = 0
    /\ direction = 0
    /\ buy_trend_length = 1
    /\ sell_trend_length = 1
    /\ signals = <<>>
    /\ position = 0
    /\ initial_capital = 0
    /\ portfolio = <<>>

\* generate_renko up to the loop of _generate_renko (lines 51-63, 72-74).
\* Without a supplied size, atr mode sizes the brick first: .iloc[-1] raises
\* IndexError on a frame without rows, and a computed size of 0 returns an
\* empty frame.  data['Close'].iloc[0] raises IndexError on a frame without
\* rows.
GenerateRenko ==
    /\ pc = "start"
    /\ LET sizing == mode = "atr" /\ size_kind = "none"
           kind == IF sizing THEN AtrKind(data, atr_period) ELSE size_kind
           size == IF sizing /\ kind = "number"
                   THEN calculate_atr(data, atr_period, atr_multiplier)
                   ELSE brick_size
       IN  IF Len(data) = 0
           THEN /\ pc' = "raised"
                /\ exc' = "IndexError"
                /\ UNCHANGED <<brick_size, size_kind, i, current_price, renko_data>>
           ELSE /\ brick_size' = size
                /\ size_kind' = kind
                /\ exc' = exc
                /\ IF sizing /\ kind = "number" /\ ZeroSizeAborts(size)
                   THEN /\ renko_data' = <<>>
                        /\ pc' = "done"
                        /\ UNCHANGED <<i, current_price>>
                   ELSE /\ pc' = "loop"
                        /\ current_price' = data[1].Close
                        /\ i' = 1
                        /\ renko_data' = renko_data
    /\ UNCHANGED <<mode, data, index, num_bricks, direction>>
    /\ UNCHANGED <<cfgVars, sigVars, btVars>>

\* DailyBrickLogic emitting an up brick on an unchanged close too.
DailyBrickLogicOnEqual ==
    /\ pc = "loop"
    /\ mode = "daily"
    /\ i < Len(data)
    /\ LET price == data[i + 1].Close
           date == data[i + 1].date
           price_change == price - current_price
       IN  /\ current_price' = price
           /\ IF price_change >= 0
              THEN /\ renko_data' = Append(renko_data,
                         make_brick(index, date, current_price, price, current_price, price, 1))
                   /\ index' = index + 1
              ELSE /\ renko_data' = Append(renko_data,
                         make_brick(index, date, current_price, current_price, price, price, -1))
                   /\ index' = index + 1
    /\ i' = i + 1
    /\ UNCHANGED <<mode, brick_size, size_kind, exc, data, pc, num_bricks, direction>>
    /\ UNCHANGED <<cfgVars, sigVars, btVars>>

\* _daily_brick_logic for row i.
DailyBrickLogic ==
    /\ pc = "loop"
    /\ mode = "daily"
    /\ i < Len(data)
    /\ LET price == data[i + 1].Close
           date == data[i + 1].date
           price_change == price - current_price
       IN  /\ current_price' = price
           /\ IF price_change > 0
              THEN /\ renko_data' = Append(renko_data,
                         make_brick(index, date, current_price, price, current_price, price, 1))
                   /\ index' = index + 1
              ELSE IF price_change < 0
              THEN /\ renko_data' = Append(renko_data,
                         make_brick(index, date, current_price, current_price, price, price, -1))
                   /\ index' = index + 1
              ELSE UNCHANGED <<renko_data, index>>
    /\ i' = i + 1
    /\ UNCHANGED <<mode, brick_size, size_kind, exc, data, pc, num_bricks, direction>>
    /\ UNCHANGED <<cfgVars, sigVars, btVars>>

\* _atr_brick_logic for row i, up to the inner loop (lines 101-105).
\* int() raises ValueError on NaN (a NaN brick size, or 0 / 0) and
\* OverflowError on an infinity (a non-zero change over a brick size of 0).
AtrBrickLogic ==
    /\ pc = "loop"
    /\ mode = "atr"
    /\ i < Len(data)
    /\ LET price == data[i + 1].Close
           price_change == price - current_price
       IN  IF size_kind = "nan" \/ brick_size = 0
           THEN /\ pc' = "raised"
                /\ exc' = (IF size_kind = "nan" \/ price_change = 0
                           THEN "ValueError" ELSE "OverflowError")
                /\ UNCHANGED <<num_bricks, direction, i>>
           ELSE LET n == Abs(TruncDiv(price_change, brick_size))
                IN  /\ exc' = exc
                    /\ IF n > 0
                       THEN /\ num_bricks' = n
                            /\ direction' = (IF price_change > 0 THEN 1 ELSE -1)
                            /\ pc' = "brick"
                            /\ i' = i
                       ELSE /\ i' = i + 1
                            /\ UNCHANGED <<num_bricks, direction, pc>>
    /\ UNCHANGED <<mode, brick_size, size_kind, data, current_price, index, renko_data>>
    /\ UNCHANGED <<cfgVars, sigVars, btVars>>

\* One iteration of the inner loop of _atr_brick_logic (lines 106-114).
AtrBrickStep ==
    /\ pc = "brick"
    /\ LET open_price == current_price
           close_price == current_price + direction * brick_size
           brick == make_brick(index, data[i + 1].date, open_price,
                               Max(open_price, close_price),
                               Min(open_price, close_price), close_price, direction)
       IN  /\ renko_data' = AtrStepList(renko_data, brick)
           /\ current_price' = close_price
           /\ index' = index + 1
    /\ num_bricks' = num_bricks - 1
    /\ IF num_bricks = 1
       THEN pc' = "loop" /\ i' = i + 1
       ELSE UNCHANGED <<pc, i>>
    /\ UNCHANGED <<mode, brick_size, size_kind, exc, data, direction>>
    /\ UNCHANGED <<cfgVars, sigVars, btVars>>

\* The end of _generate_renko (lines 78-81).
FinishGenerate ==
    /\ pc = "loop"
    /\ i >= Len(data)
    /\ renko_data' = (IF IncompleteCalled(mode, renko_data)
                      THEN append_incomplete_brick(data, renko_data, index)
                      ELSE renko_data)
    /\ pc' = "done"
    /\ UNCHANGED <<mode, brick_size, size_kind, exc, data, i, current_price, index,
                   num_bricks, direction>>
    /\ UNCHANGED <<cfgVars, sigVars, btVars>>

NextGen ==
    \/ GenerateRenko
    \/ DailyBrickLogic
    \/ AtrBrickLogic
    \/ AtrBrickStep
    \/ FinishGenerate

SpecGen == InitGen /\ [][NextGen]_vars

\* State after construction without a supplied brick size: atr mode sizes the
\* brick from the bars, daily mode never reads it.
InitAtr ==
    /\ mode \in {"daily", "atr"}
    /\ brick_size = 0
    /\ size_kind = "none"
    /\ atr_period \in 1..MaxAtrPeriod
    /\ atr_multiplier \in AtrMultipliers
    /\ exc = "none"
    /\ runs = <<>>
    /\ NoOptimizer
    /\ NoFetcher
    /\ data \in UNION {AtrFrames(n) : n \in 0..MaxBars}
    /\ pc = "start"
    /\ i = 0
    /\ current_price = 0
    /\ index = 0
    /\ renko_data = <<>>
    /\ num_bricks = 0
    /\ direction = 0
    /\ buy_trend_length = 1
    /\ sell_trend_length = 1
    /\ signals = <<>>
    /\ position = 0
    /\ initial_capital = 0
    /\ portfolio = <<>>

SpecAtr == InitAtr /\ [][NextGen]_vars

\* ValidParams accepting a supplied brick size of 0.
ValidParamsZeroSize(m, period, multiplier, kind, size) ==
    /\ m \in {"daily", "atr"}
    /\ period > 0
    /\ multiplier > 0
    /\ ~(kind # "none" /\ size < 0)

\* _validate_params (lines 31-39): TRUE when no ValueError is raised.
ValidParams(m, period, multiplier, kind, size) ==
    /\ m \in {"daily", "atr"}
    /\ period > 0
    /\ multiplier > 0
    /\ ~(kind # "none" /\ size <= 0)

\* The arguments of RenkoGenerator(...), stored on the object by __init__
\* (lines 21-25) before _validate_params runs: any mode string, any period,
\* multiplier and brick size, valid or not.
InitNew ==
    /\ mode \in {"daily", "atr", "weekly"}
    /\ size_kind \in {"none", "number"}
    /\ brick_size \in (IF size_kind = "none" THEN {0} ELSE {-1, 0} \cup BrickSizes)
    /\ atr_period \in (-1)..MaxAtrPeriod
    /\ atr_multiplier \in {-1, 0} \cup AtrMultipliers
    /\ exc = "none"
    /\ runs = <<>>
    /\ NoOptimizer
    /\ NoFetcher
    /\ data \in UNION {AtrFrames(n) : n \in 0..MaxNewBars}
    /\ pc = "new"
    /\ i = 0
    /\ current_price = 0
    /\ index = 0
    /\ renko_data = <<>>
    /\ num_bricks = 0
    /\ direction = 0
    /\ buy_trend_length = 1
    /\ sell_trend_length = 1
    /\ signals = <<>>
    /\ position = 0
    /\ initial_capital = 0
    /\ portfolio = <<>>

\* RenkoGenerator.__init__ (lines 7-29): _validate_params raises ValueError
\* on an invalid configuration.
Construct ==
    /\ pc = "new"
    /\ IF ValidParams(mode, atr_period, atr_multiplier, size_kind, brick_size)
       THEN /\ pc' = "start"
            /\ exc' = exc
       ELSE /\ pc' = "raised"
            /\ exc' = "ValueError"
    /\ UNCHANGED <<genVars, sigVars, btVars, i, renko_data>>

NextNew ==
    \/ Construct
    \/ NextGen

SpecNew == InitNew /\ [][NextNew]_vars

\* ------------------------------------------- RenkoStrategy.calculate_signals
\* Brick frames with any trends: +1/-1 bricks one unit high, dated one per
\* day, with trend 0 allowed on the last brick only.
RECURSIVE SumTo(_, _)
SumTo(t, k) == IF k = 0 THEN 0 ELSE SumTo(t, k - 1) + t[k]

TrendFrames(n) ==
    { [k \in 1..n |->
         LET o == 100 + SumTo(t, k - 1)
             c == o + t[k]
         IN  make_brick(k - 1, k, o, Max(o, c), Min(o, c), c, t[k])] :
        t \in {u \in [1..n -> {-1, 0, 1}] : \A k \in 1..(n - 1) : u[k] # 0} }

\* renko_data['trend'].rolling(W).sum() at 0-based row k, for k >= W - 1
\* (the rows before are NaN and are never read by the loop).
RECURSIVE RollingSum(_, _, _)
RollingSum(rd, W, k) ==
    IF W = 0 THEN 0 ELSE rd[k + 1].trend + RollingSum(rd, W - 1, k - 1)

\* The window of calculate_signals (line 44).
Window(Lb, Ls) == Max(Lb, Ls)

\* The first row the loop of calculate_signals evaluates (line 49).
FirstEvaluated(Lb, Ls) == Max(Lb, Ls)

\* SignalOf without the position tests.
SignalOfAnyPosition(current_trend, pos, Lb, Ls) ==
    IF current_trend >= Lb THEN 1
    ELSE IF current_trend <= -Ls THEN -1
    ELSE 0

\* The signal of one evaluated row (lines 53-68).
SignalOf(current_trend, pos, Lb, Ls) ==
    IF current_trend >= Lb /\ pos = 0 THEN 1
    ELSE IF current_trend <= -Ls /\ pos = 1 THEN -1
    ELSE 0

\* PositionAfter never leaving the position it is given.
PositionAfterStuck(sig, pos) == pos

\* The position after a signal (lines 56, 63).
PositionAfter(sig, pos) == IF sig = 1 THEN 1 ELSE IF sig = -1 THEN 0 ELSE pos

\* InitialSignals numbering the rows itself, from 1.
InitialSignalsOwnIndex(rd) ==
    [k \in 1..Len(rd) |-> [index |-> k, date |-> rd[k].date, signal |-> 0]]

\* The signal frame before the loop (lines 38-41): one row per brick with the
\* brick's index and date and signal 0.
InitialSignals(rd) ==
    [k \in 1..Len(rd) |-> [index |-> rd[k].index, date |-> rd[k].date, signal |-> 0]]

InitSig ==
    /\ mode = "daily" /\ brick_size = 0 /\ size_kind = "none" /\ data = <<>>
    /\ atr_period = 1 /\ atr_multiplier = 1 /\ exc = "none"
    /\ runs = <<>>
    /\ NoOptimizer
    /\ NoFetcher
    /\ current_price = 0 /\ index = 0 /\ num_bricks = 0 /\ direction = 0
    /\ renko_data \in UNION {TrendFrames(n) : n \in 0..MaxBricks}
    /\ buy_trend_length \in 1..MaxTrendLength
    /\ sell_trend_length \in 1..MaxTrendLength
    /\ pc = "sig_start"
    /\ i = 0
    /\ signals = <<>>
    /\ position = 0
    /\ initial_capital = 0
    /\ portfolio = <<>>

\* calculate_signals up to its loop (lines 37-48): a frame without rows has
\* no columns, so renko_data['index'] raises KeyError.
CalculateSignals ==
    /\ pc = "sig_start"
    /\ IF renko_data = <<>>
       THEN /\ pc' = "raised"
            /\ exc' = "KeyError"
            /\ UNCHANGED <<signals, position, i>>
       ELSE /\ signals' = InitialSignals(renko_data)
            /\ position' = 0
            /\ i' = FirstEvaluated(buy_trend_length, sell_trend_length)
            /\ pc' = "sig_loop"
            /\ exc' = exc
    /\ UNCHANGED <<genVars, btVars, renko_data, buy_trend_length, sell_trend_length>>

\* One iteration of the loop of calculate_signals (lines 49-68).
SignalStep ==
    /\ pc = "sig_loop"
    /\ i < Len(renko_data)
    /\ LET current_trend == RollingSum(renko_data,
                                Window(buy_trend_length, sell_trend_length), i)
           sig == SignalOf(current_trend, position, buy_trend_length, sell_trend_length)
       IN  /\ signals' = [signals EXCEPT ![i + 1].signal = sig]
           /\ position' = PositionAfter(sig, position)
    /\ i' = i + 1
    /\ UNCHANGED <<genVars, btVars, renko_data, pc, exc, buy_trend_length,
                   sell_trend_length>>

\* The return of calculate_signals (line 76).
FinishSignals ==
    /\ pc = "sig_loop"
    /\ i >= Len(renko_data)
    /\ pc' = "sig_done"
    /\ UNCHANGED <<genVars, sigVars, btVars, renko_data, i, exc>>

NextSig ==
    \/ CalculateSignals
    \/ SignalStep
    \/ FinishSignals

SpecSig == InitSig /\ [][NextSig]_vars

\* State after RenkoStrategy(...) with any trend lengths: __init__ stores the
\* arguments without a test (lines 16-17), so non-positive lengths are held
\* too.  Kept to configurations whose window max(buy, sell) is at least 1;
\* what rolling() does with a window below 1 is left to pandas.
InitSigAny ==
    /\ mode = "daily" /\ brick_size = 0 /\ size_kind = "none" /\ data = <<>>
    /\ atr_period = 1 /\ atr_multiplier = 1 /\ exc = "none"
    /\ runs = <<>>
    /\ NoOptimizer
    /\ NoFetcher
    /\ current_price = 0 /\ index = 0 /\ num_bricks = 0 /\ direction = 0
    /\ renko_data \in UNION {TrendFrames(n) : n \in 0..MaxBricks}
    /\ buy_trend_length \in (-1)..MaxTrendLength
    /\ sell_trend_length \in (-1)..MaxTrendLength
    /\ Window(buy_trend_length, sell_trend_length) >= 1
    /\ pc = "sig_start"
    /\ i = 0
    /\ signals = <<>>
    /\ position = 0
    /\ initial_capital = 0
    /\ portfolio = <<>>

SpecSigAny == InitSigAny /\ [][NextSig]_vars

\* --------------------------------------------------- RenkoStrategy.backtest
\* Money is held in 1/Scale of a currency unit.
Scale == 1000
\* Shares are bought in lots of 100 (line 125).
LOT_SIZE == 100
\* Buy commission 0.00009 = 9 / 100000 (line 128).
BuyRateNum == 9
BuyRateDen == 100000
\* Sell commission 0.0006 = 6 / 10000 (line 151).
SellRateNum == 6
SellRateDen == 10000

\* Brick frames with any closes: the daily-mode bricks of a walk of closes
\* (consecutive closes differ), dated one per day.
CloseFrames(n) ==
    { [k \in 1..n |->
         LET o == cs[k]
             c == cs[k + 1]
         IN  make_brick(k - 1, k, o, Max(o, c), Min(o, c), c,
                        IF c > o THEN 1 ELSE -1)] :
        cs \in {w \in [1..(n + 1) -> BtCloses] : \A k \in 1..n : w[k] # w[k + 1]} }

\* Signal frames aligned with a brick frame, with any signals.
SignalFrames(rd) ==
    { [k \in 1..Len(rd) |-> [index |-> rd[k].index, date |-> rd[k].date,
                               signal |-> sg[k]]] :
        sg \in [1..Len(rd) -> {-1, 0, 1}] }

\* Shares bought with the available cash (line 125).
SharesFor(available_cash, price) ==
    (available_cash \div (price * Scale * LOT_SIZE)) * LOT_SIZE

\* BuyRow leaving the row as copied when not one lot can be bought.
BuyRowSkipsEmptyLot(row, prev, price) ==
    LET available_cash == prev.cash
        shares == SharesFor(available_cash, price)
        trade_amount == shares * price * Scale
        commission == (trade_amount \div BuyRateDen) * BuyRateNum
        total_cost == trade_amount + commission
    IN  IF shares = 0 THEN row
        ELSE [row EXCEPT !.position = 1, !.holdings = trade_amount,
                         !.shares = shares, !.cash = available_cash - total_cost]

\* BuyRow charging the sell rate.
BuyRowSellRate(row, prev, price) ==
    LET available_cash == prev.cash
        shares == SharesFor(available_cash, price)
        trade_amount == shares * price * Scale
        commission == (trade_amount \div SellRateDen) * SellRateNum
        total_cost == trade_amount + commission
    IN  [row EXCEPT !.position = 1, !.holdings = trade_amount,
                    !.shares = shares, !.cash = available_cash - total_cost]

\* A row after a buy (lines 123-134).  Trade amounts are multiples of
\* BuyRateDen and of SellRateDen (lots of 100 shares at integer prices, in
\* 1/1000 units), so dividing first keeps the commission exact.
BuyRow(row, prev, price) ==
    LET available_cash == prev.cash
        shares == SharesFor(available_cash, price)
        trade_amount == shares * price * Scale
        commission == (trade_amount \div BuyRateDen) * BuyRateNum
        total_cost == trade_amount + commission
    IN  [row EXCEPT !.position = 1, !.holdings = trade_amount,
                    !.shares = shares, !.cash = available_cash - total_cost]

\* SellRow charging the buy rate.
SellRowBuyRate(row, price) ==
    LET sell_shares == row.shares
        sell_amount == sell_shares * price * Scale
        commission == (sell_amount \div BuyRateDen) * BuyRateNum
        total_sell == sell_amount - commission
    IN  [row EXCEPT !.position = 0, !.cash = row.cash + total_sell,
                    !.holdings = 0, !.shares = 0]

\* A row after a sell (lines 146-157).
SellRow(row, price) ==
    LET sell_shares == row.shares
        sell_amount == sell_shares * price * Scale
        commission == (sell_amount \div SellRateDen) * SellRateNum
        total_sell == sell_amount - commission
    IN  [row EXCEPT !.position = 0, !.cash = row.cash + total_sell,
                    !.holdings = 0, !.shares = 0]

\* StepRow carrying the holdings of the step before instead of marking them
\* to the close.
StepRowHoldingsCarried(row, prev, sig, price) ==
    LET copied == [row EXCEPT !.position = prev.position,
                              !.shares = prev.shares, !.cash = prev.cash,
                              !.holdings = prev.holdings]
        traded == IF sig = 1 /\ prev.position = 0
                  THEN BuyRow(copied, prev, price)
                  ELSE IF sig = -1 /\ prev.position = 1
                  THEN SellRow(copied, price)
                  ELSE copied
    IN  [traded EXCEPT !.total = traded.holdings + traded.cash]

\* StepRow taking the total before the holdings are marked to the close.
StepRowTotalFirst(row, prev, sig, price) ==
    LET copied == [row EXCEPT !.position = prev.position,
                              !.shares = prev.shares, !.cash = prev.cash]
        traded == IF sig = 1 /\ prev.position = 0
                  THEN BuyRow(copied, prev, price)
                  ELSE IF sig = -1 /\ prev.position = 1
                  THEN SellRow(copied, price)
                  ELSE copied
        totalled == [traded EXCEPT !.total = traded.holdings + traded.cash]
    IN  IF totalled.position = 1
        THEN [totalled EXCEPT !.holdings = totalled.shares * price * Scale]
        ELSE totalled

\* Row i of the portfolio after one iteration of the loop (lines 110-177).
StepRow(row, prev, sig, price) ==
    LET copied == [row EXCEPT !.position = prev.position,
                              !.shares = prev.shares, !.cash = prev.cash]
        traded == IF sig = 1 /\ prev.position = 0
                  THEN BuyRow(copied, prev, price)
                  ELSE IF sig = -1 /\ prev.position = 1
                  THEN SellRow(copied, price)
                  ELSE copied
        marked == IF traded.position = 1
                  THEN [traded EXCEPT !.holdings = traded.shares * price * Scale]
                  ELSE traded
    IN  [marked EXCEPT !.total = marked.holdings + marked.cash]

InitBt ==
    /\ mode = "daily" /\ brick_size = 0 /\ size_kind = "none" /\ data = <<>>
    /\ atr_period = 1 /\ atr_multiplier = 1 /\ exc = "none"
    /\ runs = <<>>
    /\ NoOptimizer
    /\ NoFetcher
    /\ current_price = 0 /\ index = 0 /\ num_bricks = 0 /\ direction = 0
    /\ buy_trend_length = 1 /\ sell_trend_length = 1 /\ position = 0
    /\ renko_data \in UNION {CloseFrames(n) : n \in 0..MaxBricks}
    /\ signals \in SignalFrames(renko_data)
    /\ initial_capital \in {c * Scale : c \in Capitals}
    /\ pc = "bt_start"
    /\ i = 0
    /\ portfolio = <<>>

\* backtest up to its loop (lines 90-107): a frame without rows has no
\* columns, so renko_data['index'] raises KeyError.
Backtest ==
    /\ pc = "bt_start"
    /\ IF renko_data = <<>>
       THEN /\ pc' = "raised"
            /\ exc' = "KeyError"
            /\ UNCHANGED <<portfolio, i>>
       ELSE /\ portfolio' = [k \in 1..Len(renko_data) |->
                    [index |-> renko_data[k].index, date |-> renko_data[k].date,
                     holdings |-> 0, shares |-> 0,
                     cash |-> IF k = 1 THEN initial_capital ELSE 0,
                     total |-> IF k = 1 THEN initial_capital ELSE 0,
                     position |-> 0]]
            /\ i' = 1
            /\ pc' = "bt_loop"
            /\ exc' = exc
    /\ UNCHANGED <<genVars, sigVars, renko_data, initial_capital>>

\* One iteration of the loop of backtest (lines 109-177).
BacktestStep ==
    /\ pc = "bt_loop"
    /\ i < Len(renko_data)
    /\ portfolio' = [portfolio EXCEPT ![i + 1] =
           StepRow(portfolio[i + 1], portfolio[i], signals[i + 1].signal,
                   renko_data[i + 1].close)]
    /\ i' = i + 1
    /\ UNCHANGED <<genVars, sigVars, renko_data, initial_capital, pc, exc>>

\* The return of backtest (lines 179-188).
FinishBacktest ==
    /\ pc = "bt_loop"
    /\ i >= Len(renko_data)
    /\ pc' = "bt_done"
    /\ UNCHANGED <<genVars, sigVars, btVars, renko_data, i, exc>>

NextBt ==
    \/ Backtest
    \/ BacktestStep
    \/ FinishBacktest

SpecBt == InitBt /\ [][NextBt]_vars

\* Brick frames of a price collapse: four daily-mode bricks closing at 2 or
\* 3, then 11200, then 1, then 2 or 3.
CollapseFrames ==
    { [k \in 1..4 |->
         LET o == w[k]
             c == w[k + 1]
         IN  make_brick(k - 1, k, o, Max(o, c), Min(o, c), c,
                        IF c > o THEN 1 ELSE -1)] :
        w \in {<<1, b, 11200, 1, c>> : b \in {2, 3}, c \in {2, 3}} }

\* Capitals that buy exactly one lot at 11200.
CollapseCapitals == {1120000, 1121000}

\* backtest on a collapse: the position is opened on the brick closing at
\* 11200 (signal +1 at index 1), the other signals are arbitrary.
InitBtCollapse ==
    /\ mode = "daily" /\ brick_size = 0 /\ size_kind = "none" /\ data = <<>>
    /\ atr_period = 1 /\ atr_multiplier = 1 /\ exc = "none"
    /\ runs = <<>>
    /\ NoOptimizer
    /\ NoFetcher
    /\ current_price = 0 /\ index = 0 /\ num_bricks = 0 /\ direction = 0
    /\ buy_trend_length = 1 /\ sell_trend_length = 1 /\ position = 0
    /\ renko_data \in CollapseFrames
    /\ signals \in {sg \in SignalFrames(renko_data) : sg[2].signal = 1}
    /\ initial_capital \in {c * Scale : c \in CollapseCapitals}
    /\ pc = "bt_start"
    /\ i = 0
    /\ portfolio = <<>>

SpecBtCollapse == InitBtCollapse /\ [][NextBt]_vars

\* Brick frames around the prices of the worked examples (99, 110), with a
\* capital of 1,000,000 and one too small for a lot.
ExampleCloses == {99, 100, 110}
ExampleCapitals == {5000, 1000000}

ExampleFrames(n) ==
    { [k \in 1..n |->
         LET o == cs[k]
             c == cs[k + 1]
         IN  make_brick(k - 1, k, o, Max(o, c), Min(o, c), c,
                        IF c > o THEN 1 ELSE -1)] :
        cs \in {w \in [1..(n + 1) -> ExampleCloses] : \A k \in 1..n : w[k] # w[k + 1]} }

InitBtExample ==
    /\ mode = "daily" /\ brick_size = 0 /\ size_kind = "none" /\ data = <<>>
    /\ atr_period = 1 /\ atr_multiplier = 1 /\ exc = "none"
    /\ runs = <<>>
    /\ NoOptimizer
    /\ NoFetcher
    /\ current_price = 0 /\ index = 0 /\ num_bricks = 0 /\ direction = 0
    /\ buy_trend_length = 1 /\ sell_trend_length = 1 /\ position = 0
    /\ renko_data \in UNION {ExampleFrames(n) : n \in 0..MaxBricks}
    /\ signals \in SignalFrames(renko_data)
    /\ initial_capital \in {c * Scale : c \in ExampleCapitals}
    /\ pc = "bt_start"
    /\ i = 0
    /\ portfolio = <<>>

SpecBtExample == InitBtExample /\ [][NextBt]_vars

\* ------------------------------------ RenkoBacktester._run_backtest_with_params
\* The initial capital the caller passes to backtest (line 93).
CallerCapital == 1000000

\* strategy = RenkoStrategy(...) and the call of calculate_signals on the
\* generator's result (renko_backtester.py lines 84-92).
NewStrategy ==
    /\ pc = "done"
    /\ \E Lb \in 1..MaxTrendLength, Ls \in 1..MaxTrendLength :
           /\ buy_trend_length' = Lb
           /\ sell_trend_length' = Ls
    /\ pc' = "sig_start"
    /\ UNCHANGED <<genVars, btVars, signals, position, exc, i, renko_data>>

\* The call of backtest on the bricks and their signals (line 93).
CallBacktest ==
    /\ pc = "sig_done"
    /\ initial_capital' = CallerCapital * Scale
    /\ pc' = "bt_start"
    /\ UNCHANGED <<genVars, sigVars, portfolio, exc, i, renko_data>>

NextPipe ==
    \/ NextGen
    \/ NewStrategy
    \/ NextSig
    \/ CallBacktest
    \/ NextBt

\* The call of backtest on the signals calculate_signals returned for the
\* same bricks, with the capital of the optimizer's configuration
\* (backtest_optimizer.py lines 118-119, 152-153).
BacktestOnSignals ==
    /\ pc = "sig_done"
    /\ \E c \in ExampleCapitals : initial_capital' = c * Scale
    /\ pc' = "bt_start"
    /\ UNCHANGED <<genVars, sigVars, portfolio, exc, i, renko_data>>

NextSigBt ==
    \/ NextSig
    \/ BacktestOnSignals
    \/ NextBt

\* calculate_signals and backtest composed on any brick frame.
SpecSigBt == InitSig /\ [][NextSigBt]_vars

\* One backtest run of the caller, on a generator constructed without a
\* supplied brick size.
SpecPipe == InitAtr /\ [][NextPipe]_vars

\* ------------------------------------------------------------ repeated runs
\* What a finished run leaves to its caller: the bars it was given, the
\* bricks, signals and portfolio it built, and whether and how it raised.
Outcome ==
    [data |-> data, renko_data |-> renko_data, signals |-> signals,
     portfolio |-> portfolio, pc |-> pc, exc |-> exc]

\* FreshSize handing the size of the finished run to the next generator.
FreshSizeCarried(size, kind) == <<size, kind>>

\* brick_size of the RenkoGenerator a further run constructs: the caller
\* builds params from the arguments again, so it is None as in the first
\* run (renko_backtester.py lines 64-73, 78-83).
FreshSize(size, kind) == <<0, "none">>

\* strategy = RenkoStrategy(buy_trend_length=params[...], ...) and the call
\* of calculate_signals, the lengths being those of the configuration
\* (renko_backtester.py lines 88-92).
StrategyOfParams ==
    /\ pc = "done"
    /\ pc' = "sig_start"
    /\ UNCHANGED <<genVars, sigVars, btVars, exc, i, renko_data>>

\* The caller runs the whole backtest a second time on the same bars and
\* the same arguments, with a new generator and a new strategy.
RunAgain ==
    /\ pc \in {"bt_done", "raised"}
    /\ runs = <<>>
    /\ runs' = <<Outcome>>
    /\ brick_size' = FreshSize(brick_size, size_kind)[1]
    /\ size_kind' = FreshSize(brick_size, size_kind)[2]
    /\ pc' = "start"
    /\ exc' = "none"
    /\ i' = 0
    /\ current_price' = 0
    /\ index' = 0
    /\ renko_data' = <<>>
    /\ num_bricks' = 0
    /\ direction' = 0
    /\ signals' = <<>>
    /\ position' = 0
    /\ portfolio' = <<>>
    /\ UNCHANGED <<mode, atr_period, atr_multiplier, data, buy_trend_length,
                   sell_trend_length, initial_capital, optVars, fetchVars>>

InitRerun ==
    /\ mode \in {"daily", "atr"}
    /\ brick_size = 0
    /\ size_kind = "none"
    /\ atr_period \in 1..MaxAtrPeriod
    /\ atr_multiplier \in AtrMultipliers
    /\ exc = "none"
    /\ runs = <<>>
    /\ NoOptimizer
    /\ NoFetcher
    /\ data \in UNION {AtrFrames(n) : n \in 0..MaxNewBars}
    /\ pc = "start"
    /\ i = 0
    /\ current_price = 0
    /\ index = 0
    /\ renko_data = <<>>
    /\ num_bricks = 0
    /\ direction = 0
    /\ buy_trend_length \in 1..MaxTrendLength
    /\ sell_trend_length \in 1..MaxTrendLength
    /\ signals = <<>>
    /\ position = 0
    /\ initial_capital = 0
    /\ portfolio = <<>>

NextRerun ==
    \/ NextGen
    \/ StrategyOfParams
    \/ NextSig
    \/ CallBacktest
    \/ NextBt
    \/ RunAgain

\* Two backtest runs of the caller on the same bars and arguments.
SpecRerun == InitRerun /\ [][NextRerun]_vars

\* ----------------------------------------- one generator called repeatedly
\* The bar frames a caller can hand to generate_renko.
ReuseFrames == UNION {AtrFrames(n) : n \in 0..MaxNewBars}

\* The locals _generate_renko initialises at each call (lines 72-74) are the
\* same in the three calls below.

\* After generate_renko(bars) on a first generator has ended, a second
\* generator with the same constructor arguments is built and called on
\* other bars.
CallOnOtherBars ==
    /\ pc \in {"done", "raised"}
    /\ runs = <<>>
    /\ runs' = <<Outcome>>
    /\ \E other \in ReuseFrames \ {data} : data' = other
    /\ brick_size' = 0
    /\ size_kind' = "none"
    /\ pc' = "start"
    /\ exc' = "none"
    /\ i' = 0
    /\ current_price' = 0
    /\ index' = 0
    /\ renko_data' = <<>>
    /\ num_bricks' = 0
    /\ direction' = 0
    /\ UNCHANGED <<mode, atr_period, atr_multiplier, sigVars, btVars, optVars,
                   fetchVars>>

\* The second generator is called again, now on the bars of the first
\* call: self.brick_size is what the call before left (lines 54-55).
CallAgain ==
    /\ pc \in {"done", "raised"}
    /\ Len(runs) = 1
    /\ runs' = Append(runs, Outcome)
    /\ data' = runs[1].data
    /\ pc' = "start"
    /\ exc' = "none"
    /\ i' = 0
    /\ current_price' = 0
    /\ index' = 0
    /\ renko_data' = <<>>
    /\ num_bricks' = 0
    /\ direction' = 0
    /\ UNCHANGED <<mode, brick_size, size_kind, atr_period, atr_multiplier,
                   sigVars, btVars, optVars, fetchVars>>

InitReuse ==
    /\ mode \in {"daily", "atr"}
    /\ brick_size = 0
    /\ size_kind = "none"
    /\ atr_period \in 1..MaxAtrPeriod
    /\ atr_multiplier \in AtrMultipliers
    /\ exc = "none"
    /\ runs = <<>>
    /\ NoOptimizer
    /\ NoFetcher
    /\ data \in ReuseFrames
    /\ pc = "start"
    /\ i = 0
    /\ current_price = 0
    /\ index = 0
    /\ renko_data = <<>>
    /\ num_bricks = 0
    /\ direction = 0
    /\ buy_trend_length = 1
    /\ sell_trend_length = 1
    /\ signals = <<>>
    /\ position = 0
    /\ initial_capital = 0
    /\ portfolio = <<>>

NextReuse ==
    \/ NextGen
    \/ CallOnOtherBars
    \/ CallAgain

\* generate_renko on a new generator, then on a second generator first on
\* other bars and then on the bars of the first call.
SpecReuse == InitReuse /\ [][NextReuse]_vars

\* ------------------------------------------------------- BacktestOptimizer
\* The grids and limits of the configurations tried: lists of trend
\* lengths, of ATR periods and of ATR multipliers (in halves), the task
\* limit and the thread count.
TrendLengthLists == {<<1>>, <<1, 2>>}
AtrPeriodLists == {<<1>>, <<1, 2>>}
AtrMultiplierLists == {<<1>>, <<1, 2>>}
IterationLimits == {1, 3, 10000}
ThreadCounts == {1, 2}

Configs ==
    [atr_periods : AtrPeriodLists, atr_multipliers : AtrMultiplierLists,
     trend_lengths : TrendLengthLists, max_iterations : IterationLimits,
     max_threads : ThreadCounts]

\* The daily tasks in the order of the loops of lines 67-69; None is 0.
DailyTasks(trend_lengths) ==
    LET n == Len(trend_lengths)
    IN  [k \in 1..(n * n) |->
            [mode |-> "daily", atr_period |-> 0, atr_multiplier |-> 0,
             buy_trend_length |-> trend_lengths[((k - 1) \div n) + 1],
             sell_trend_length |-> trend_lengths[((k - 1) % n) + 1]]]

\* The atr tasks in the order of the loops of lines 72-76.
AtrTasks(atr_periods, atr_multipliers, trend_lengths) ==
    LET n == Len(trend_lengths)
        m == Len(atr_multipliers)
    IN  [k \in 1..(Len(atr_periods) * m * n * n) |->
            [mode |-> "atr",
             atr_period |-> atr_periods[((k - 1) \div (m * n * n)) + 1],
             atr_multiplier |-> atr_multipliers[(((k - 1) \div (n * n)) % m) + 1],
             buy_trend_length |-> trend_lengths[(((k - 1) \div n) % n) + 1],
             sell_trend_length |-> trend_lengths[((k - 1) % n) + 1]]]

\* tasks[:max_iterations] (line 79).
Limited(ts, max_iterations) == SubSeq(ts, 1, Min(Len(ts), max_iterations))

InitOpt ==
    /\ mode = "daily"
    /\ brick_size = 0
    /\ size_kind = "none"
    /\ atr_period = 1
    /\ atr_multiplier = 1
    /\ exc = "none"
    /\ runs = <<>>
    /\ config \in Configs
    /\ tasks = <<>>
    /\ results = <<>>
    /\ queue = <<>>
    /\ threads = <<>>
    /\ results_lock = 0
    /\ NoFetcher
    /\ data \in UNION {AtrFrames(n) : n \in 0..MaxNewBars}
    /\ pc = "opt_start"
    /\ i = 0
    /\ current_price = 0
    /\ index = 0
    /\ renko_data = <<>>
    /\ num_bricks = 0
    /\ direction = 0
    /\ buy_trend_length = 1
    /\ sell_trend_length = 1
    /\ signals = <<>>
    /\ position = 0
    /\ initial_capital = 0
    /\ portfolio = <<>>

\* run_optimization (lines 52-100): the task list is built and limited,
\* then ThreadPoolExecutor(max_threads=...) raises TypeError, as the
\* constructor has no such keyword (its parameter is max_workers); the
\* exception leaves run_optimization before a task is submitted.
RunOptimization ==
    /\ pc = "opt_start"
    /\ tasks' = Limited(DailyTasks(config.trend_lengths)
                        \o AtrTasks(config.atr_periods, config.atr_multipliers,
                                    config.trend_lengths),
                        config.max_iterations)
    /\ pc' = "raised"
    /\ exc' = "TypeError"
    /\ UNCHANGED <<mode, brick_size, size_kind, atr_period, atr_multiplier,
                   runs, config, results, poolVars, data, current_price,
                   index, num_bricks, direction, sigVars, btVars, i,
                   renko_data, fetchVars>>

NextOpt == RunOptimization

\* One grid search.
SpecOpt == InitOpt /\ [][NextOpt]_vars

\* ------------------------------------- BacktestOptimizer: the worker methods
\* Whether generate_renko returns at least one brick for the bars d with a
\* sized brick: the brick list of _generate_renko gets its first brick at
\* the first bar whose close is a whole brick away from the first close
\* (lines 72-76, 100-102) and never becomes empty again, as every pop of
\* _atr_brick_logic is followed by an append (lines 110-112).
BricksProduced(d, size) ==
    \E k \in 2..Len(d) : Abs(d[k].Close - d[1].Close) >= size

\* Whether the worker method reaches its results.append for a task on the
\* bars d.  A daily run returns a brick for every changed close; an atr
\* run raises IndexError on no bars, ValueError on a NaN size with two or
\* more bars, and returns an empty frame on a NaN size with one bar, a zero
\* size or no whole brick; calculate_signals raises KeyError on an empty
\* frame (lines 109-120, 149-161).
TaskSucceeds(d, task) ==
    IF task.mode = "daily"
    THEN \E k \in 2..Len(d) : d[k].Close # d[k - 1].Close
    ELSE /\ Len(d) >= 1
         /\ AtrKind(d, task.atr_period) = "number"
         /\ calculate_atr(d, task.atr_period, task.atr_multiplier) > 0
         /\ BricksProduced(d, calculate_atr(d, task.atr_period,
                                            task.atr_multiplier))

\* What the worker methods and the pool leave alone: the state of the
\* single run and the optimizer's configuration and task list.
runVars == <<mode, brick_size, size_kind, atr_period, atr_multiplier, runs,
             data, current_price, index, num_bricks, direction, sigVars,
             btVars, pc, exc, i, renko_data, config, tasks, fetchVars>>

\* The pool threads.
Threads == 1..config.max_threads

\* The entry a worker method appends for its task (lines 124-139, 165-182),
\* reduced to the fields that identify the task.
ResultOf(task) == task

\* A pool thread takes the oldest submitted task and enters the worker
\* method (the submits of lines 84-90 as the pool serves them).
TakeTask(t) ==
    /\ threads[t].pc = "idle"
    /\ queue # <<>>
    /\ threads' = [threads EXCEPT ![t] = [pc |-> "run", task |-> Head(queue)]]
    /\ queue' = Tail(queue)
    /\ UNCHANGED <<runVars, results, results_lock>>

\* The worker method up to its with statement (lines 104-120, 143-161): the
\* generator, the strategy and the backtest work on objects of the call.
\* An exception ends the task; the main thread logs it (lines 94-97).
RunTask(t) ==
    /\ threads[t].pc = "run"
    /\ threads' = [threads EXCEPT ![t].pc =
                       IF TaskSucceeds(data, threads[t].task)
                       THEN "wait" ELSE "idle"]
    /\ UNCHANGED <<runVars, results, results_lock, queue>>

\* Acquire entering the with block without taking the lock.
AcquireNoLock(t) ==
    /\ threads[t].pc = "wait"
    /\ threads' = [threads EXCEPT ![t].pc = "locked"]
    /\ UNCHANGED <<runVars, results, results_lock, queue>>

\* with self.results_lock: the thread blocks until the lock is free
\* (lines 123, 164).
Acquire(t) ==
    /\ threads[t].pc = "wait"
    /\ results_lock = 0
    /\ results_lock' = t
    /\ threads' = [threads EXCEPT ![t].pc = "locked"]
    /\ UNCHANGED <<runVars, results, queue>>

\* self.results.append({...}) (lines 124-139, 165-182).
AppendResult(t) ==
    /\ threads[t].pc = "locked"
    /\ results' = Append(results, ResultOf(threads[t].task))
    /\ threads' = [threads EXCEPT ![t].pc = "appended"]
    /\ UNCHANGED <<runVars, results_lock, queue>>

\* The end of the with block releases the lock; the task is complete.
Release(t) ==
    /\ threads[t].pc = "appended"
    /\ results_lock' = 0
    /\ threads' = [threads EXCEPT ![t].pc = "idle"]
    /\ UNCHANGED <<runVars, results, queue>>

\* The configurations whose task list is limited to a few tasks.
FewIterations == {1, 3}
WorkerConfigs == {c \in Configs : c.max_iterations \in FewIterations}

\* The optimizer with its tasks submitted to a pool of max_threads threads,
\* the main thread waiting for them (lines 93-97).
InitWorkers ==
    /\ mode = "daily"
    /\ brick_size = 0
    /\ size_kind = "none"
    /\ atr_period = 1
    /\ atr_multiplier = 1
    /\ exc = "none"
    /\ runs = <<>>
    /\ config \in WorkerConfigs
    /\ tasks = Limited(DailyTasks(config.trend_lengths)
                       \o AtrTasks(config.atr_periods, config.atr_multipliers,
                                   config.trend_lengths),
                       config.max_iterations)
    /\ results = <<>>
    /\ queue = tasks
    /\ threads = [t \in Threads |-> [pc |-> "idle", task |-> tasks[1]]]
    /\ results_lock = 0
    /\ NoFetcher
    /\ data \in UNION {AtrFrames(n) : n \in 0..MaxNewBars}
    /\ pc = "opt_wait"
    /\ i = 0
    /\ current_price = 0
    /\ index = 0
    /\ renko_data = <<>>
    /\ num_bricks = 0
    /\ direction = 0
    /\ buy_trend_length = 1
    /\ sell_trend_length = 1
    /\ signals = <<>>
    /\ position = 0
    /\ initial_capital = 0
    /\ portfolio = <<>>

NextWorkers ==
    \E t \in Threads :
        \/ TakeTask(t)
        \/ RunTask(t)
        \/ Acquire(t)
        \/ AppendResult(t)
        \/ Release(t)

\* The worker methods run by the threads of a pool.
SpecWorkers == InitWorkers /\ [][NextWorkers]_vars

\* ------------------------------------------------------------------ DataBase
\* Dates are day numbers: day 1 is a Monday, days 6 and 7 a weekend.  The
\* 'YYYY-MM-DD' strings the code compares order as the days do.
DbDays == 1..2
\* Symbols as the database gets them.
DbSymbols == {"000001", "000002"}
Intervals == {"1d", "1wk"}
Values == {10, 11}

\* What a call returns: None, a frame (a sequence of rows [date, value,
\* stamp]), a boolean, or the exception that left it.
None == [kind |-> "none"]
FrameOf(f) == [kind |-> "frame", frame |-> f]
BoolOf(b) == [kind |-> "bool", value |-> b]
Raised(e) == [kind |-> "raise", exc |-> e]

\* TableSchema.get_hist_data_table: one table per interval.
get_hist_data_table(interval) == interval

\* DataBase.__init__ creates the table of interval 1d only (lines 62-77).
NewDataBase == [tables |-> {get_hist_data_table("1d")}, rows |-> {}]

\* The rows of a table for a symbol with a date in [start_date, end_date]
\* (the WHERE clause of fetch, lines 108-110).
RowsIn(d, symbol, start_date, end_date, interval) ==
    {r \in d.rows : /\ r.table = get_hist_data_table(interval)
                    /\ r.symbol = symbol
                    /\ r.date >= start_date
                    /\ r.date <= end_date}

\* ORDER BY date ASC and DataConverter.db_rows_to_df: the frame of a set of
\* rows of one symbol and table (their dates differ: PRIMARY KEY).
RECURSIVE db_rows_to_df(_)
db_rows_to_df(rs) ==
    IF rs = {} THEN <<>>
    ELSE LET first == CHOOSE r \in rs : \A q \in rs : r.date <= q.date
         IN  <<[date |-> first.date, value |-> first.value, stamp |-> first.stamp]>>
             \o db_rows_to_df(rs \ {first})

\* DataBase.fetch (lines 104-122): the SELECT raises OperationalError when
\* the interval's table does not exist.
fetch(d, symbol, start_date, end_date, interval) ==
    LET rs == RowsIn(d, symbol, start_date, end_date, interval)
    IN  IF get_hist_data_table(interval) \notin d.tables
        THEN Raised("OperationalError")
        ELSE IF rs = {} THEN None ELSE FrameOf(db_rows_to_df(rs))

\* DataConverter.df_to_db_records of row k of a frame.
df_to_db_record(symbol, df, interval, k) ==
    [table |-> get_hist_data_table(interval), symbol |-> symbol,
     date |-> df[k].date, value |-> df[k].value, stamp |-> df[k].stamp]

\* Whether the table holds a row with the key (symbol, date) of rec.
HasKey(rows, rec) ==
    \E r \in rows : r.table = rec.table /\ r.symbol = rec.symbol /\ r.date = rec.date

\* executemany of INSERT OR IGNORE over the first n rows of the frame.
RECURSIVE InsertOrIgnore(_, _, _, _, _)
InsertOrIgnore(rows, symbol, df, interval, n) ==
    IF n = 0 THEN rows
    ELSE LET before == InsertOrIgnore(rows, symbol, df, interval, n - 1)
             rec == df_to_db_record(symbol, df, interval, n)
         IN  IF HasKey(before, rec) THEN before ELSE before \cup {rec}

\* executemany of INSERT OR REPLACE over the first n rows of the frame.
RECURSIVE InsertOrReplace(_, _, _, _, _)
InsertOrReplace(rows, symbol, df, interval, n) ==
    IF n = 0 THEN rows
    ELSE LET before == InsertOrReplace(rows, symbol, df, interval, n - 1)
             rec == df_to_db_record(symbol, df, interval, n)
         IN  {r \in before : ~(r.table = rec.table /\ r.symbol = rec.symbol
                                /\ r.date = rec.date)} \cup {rec}

\* DataBase.insert (lines 124-139): the database after the call and the
\* exception that left it; an empty frame returns before the statement.
insert(d, symbol, df, interval) ==
    IF df = <<>> THEN [db |-> d, exc |-> "none"]
    ELSE IF get_hist_data_table(interval) \notin d.tables
    THEN [db |-> d, exc |-> "OperationalError"]
    ELSE [db |-> [d EXCEPT !.rows = InsertOrIgnore(d.rows, symbol, df, interval, Len(df))],
          exc |-> "none"]

\* DataBase.update (lines 141-153): no test for an empty frame.
update(d, symbol, df, interval) ==
    IF get_hist_data_table(interval) \notin d.tables
    THEN [db |-> d, exc |-> "OperationalError"]
    ELSE [db |-> [d EXCEPT !.rows = InsertOrReplace(d.rows, symbol, df, interval, Len(df))],
          exc |-> "none"]

\* The dates of a symbol in a table.
DatesOf(d, symbol, interval) ==
    {r.date : r \in {q \in d.rows : q.table = get_hist_data_table(interval)
                                     /\ q.symbol = symbol}}

\* DataBase.get_first_date (lines 172-187).
get_first_date(d, symbol, interval) ==
    IF get_hist_data_table(interval) \notin d.tables THEN Raised("OperationalError")
    ELSE IF DatesOf(d, symbol, interval) = {} THEN None
    ELSE [kind |-> "date",
          date |-> CHOOSE x \in DatesOf(d, symbol, interval) :
                       \A y \in DatesOf(d, symbol, interval) : x <= y]

\* DataBase.get_last_date (lines 155-170).
get_last_date(d, symbol, interval) ==
    IF get_hist_data_table(interval) \notin d.tables THEN Raised("OperationalError")
    ELSE IF DatesOf(d, symbol, interval) = {} THEN None
    ELSE [kind |-> "date",
          date |-> CHOOSE x \in DatesOf(d, symbol, interval) :
                       \A y \in DatesOf(d, symbol, interval) : x >= y]

\* The frames given to insert and update: up to two rows of different
\* dates in either order, with one value.
DbFrames ==
    {<<>>}
    \cup {<<[date |-> a, value |-> v, stamp |-> "final"]>> : a \in DbDays, v \in Values}
    \cup {<<[date |-> ab[1], value |-> v, stamp |-> "final"],
            [date |-> ab[2], value |-> v, stamp |-> "final"]>> :
              ab \in {p \in DbDays \X DbDays : p[1] # p[2]}, v \in Values}

\* A database as DataBase.__init__ leaves it.
InitDb ==
    /\ mode = "daily" /\ brick_size = 0 /\ size_kind = "none" /\ data = <<>>
    /\ atr_period = 1 /\ atr_multiplier = 1 /\ exc = "none"
    /\ runs = <<>>
    /\ NoOptimizer
    /\ current_price = 0 /\ index = 0 /\ num_bricks = 0 /\ direction = 0
    /\ buy_trend_length = 1 /\ sell_trend_length = 1 /\ position = 0
    /\ renko_data = <<>> /\ signals = <<>> /\ initial_capital = 0
    /\ portfolio = <<>> /\ i = 0
    /\ pc = "db_idle"
    /\ data_cache = {} /\ files = {}
    /\ use_db_cache = TRUE /\ use_csv_cache = FALSE /\ query_method = "none"
    /\ db = NewDataBase
    /\ last_call = [op |-> "none"]

\* What the calls on the database leave alone.
dbFrame == <<mode, brick_size, size_kind, atr_period, atr_multiplier, runs,
             optVars, data, current_price, index, num_bricks, direction,
             sigVars, btVars, exc, i, renko_data, data_cache, files,
             use_db_cache, use_csv_cache, query_method>>

\* A call of DataBase.insert.
DbInsert ==
    /\ pc = "db_idle"
    /\ \E symbol \in DbSymbols, df \in DbFrames, interval \in Intervals :
          LET res == insert(db, symbol, df, interval)
          IN  /\ db' = res.db
              /\ last_call' = [op |-> "insert", symbol |-> symbol, df |-> df,
                               interval |-> interval,
                               ret |-> IF res.exc = "none" THEN None
                                       ELSE Raised(res.exc)]
    /\ UNCHANGED <<dbFrame, pc>>

\* A call of DataBase.update.
DbUpdate ==
    /\ pc = "db_idle"
    /\ \E symbol \in DbSymbols, df \in DbFrames, interval \in Intervals :
          LET res == update(db, symbol, df, interval)
          IN  /\ db' = res.db
              /\ last_call' = [op |-> "update", symbol |-> symbol, df |-> df,
                               interval |-> interval,
                               ret |-> IF res.exc = "none" THEN None
                                       ELSE Raised(res.exc)]
    /\ UNCHANGED <<dbFrame, pc>>

\* A call of DataBase.fetch.
DbFetch ==
    /\ pc = "db_idle"
    /\ \E symbol \in DbSymbols, start_date \in DbDays, end_date \in DbDays,
          interval \in Intervals :
          last_call' = [op |-> "fetch", symbol |-> symbol,
                        start_date |-> start_date, end_date |-> end_date,
                        interval |-> interval,
                        ret |-> fetch(db, symbol, start_date, end_date, interval)]
    /\ UNCHANGED <<dbFrame, pc, db>>

NextDb ==
    \/ DbInsert
    \/ DbUpdate
    \/ DbFetch

\* Calls of insert, update and fetch on one database, in any order.
SpecDb == InitDb /\ [][NextDb]_vars

\* --------------------------------------------------------------- DataFetcher
\* Days are counted from a Monday (day 1); the day of datetime.now() is the
\* Monday after.
Today == 8
\* Stock codes, as records of the part before the dot and the suffix.
DigitCodes == {"000001", "00700"}
IsDigit(symbol) == symbol.suffix = "" /\ symbol.code \in DigitCodes

\* _is_workday (lines 484-489): weekday() >= 5 on Saturday and Sunday.
is_workday(date) == (date % 7) \notin {6, 0}

\* _get_nearest_workday_backward (lines 491-496)
RECURSIVE get_nearest_workday_backward(_)
get_nearest_workday_backward(date) ==
    IF is_workday(date) THEN date ELSE get_nearest_workday_backward(date - 1)

\* _get_nearest_workday_forward (lines 498-503)
RECURSIVE get_nearest_workday_forward(_)
get_nearest_workday_forward(date) ==
    IF is_workday(date) THEN date ELSE get_nearest_workday_forward(date + 1)

\* _prepare_params (lines 179-213) of a call that gives its end date: the
\* adjusted arguments or ValueError.
prepare_params(symbol, start_date, end_date, interval) ==
    IF ~(symbol.suffix \in {".SS", ".SH", ".SZ", ".HK"}) /\ ~IsDigit(symbol)
    THEN Raised("ValueError")
    ELSE IF interval \notin {"1d", "1wk", "1mo"}
    THEN Raised("ValueError")
    ELSE [kind |-> "params",
          symbol |-> IF symbol.suffix \in {".SS", ".SH", ".SZ"}
                     THEN [code |-> symbol.code, suffix |-> ""]
                     ELSE symbol,
          start_date |-> IF is_workday(start_date) THEN start_date
                         ELSE get_nearest_workday_forward(start_date),
          end_date |-> IF is_workday(end_date) THEN end_date
                       ELSE get_nearest_workday_backward(end_date),
          interval |-> interval]

\* _get_cache_key (line 79) and _get_cache_filename (line 59): the text is
\* made of the four parts, which it determines.
get_cache_key(symbol, start_date, end_date, interval) ==
    <<symbol, start_date, end_date, interval>>

\* A cache that never holds the key.
get_fromNothing(cache, key) == None

\* A cache that drops what it is given.
save_toNothing(cache, key, df) == cache

\* dict.get on a cache: the frame under the key, or None.
get_from(cache, key) ==
    IF \E e \in cache : e.key = key
    THEN FrameOf((CHOOSE e \in cache : e.key = key).frame)
    ELSE None

\* cache[key] = df
save_to(cache, key, df) ==
    {e \in cache : e.key # key} \cup {[key |-> key, frame |-> df]}

\* The price the provider quotes.
Quote == 11

\* The rows the provider has for the days first..last: one per workday up
\* to today, stamped by _process_query_result with the time of the query
\* (lines 126-135): only today's row can be older than its close.
RECURSIVE MarketRows(_, _, _)
MarketRows(first, last, closed) ==
    IF first > last THEN <<>>
    ELSE MarketRows(first, last - 1, closed)
         \o (IF is_workday(last) /\ last <= Today
             THEN <<[date |-> last, value |-> Quote,
                     stamp |-> IF last = Today /\ ~closed
                               THEN "intraday" ELSE "final"]>>
             ELSE <<>>)

\* _query_stock_data_from_net (lines 355-387) followed by the test for an
\* empty frame of _process_query_result: the end date is moved one day on;
\* yfinance leaves its end date out, akshare includes it.  A provider that
\* fails gives False, which becomes None.
query_stock_data_from_net(method, start_date, end_date, answer, closed) ==
    IF answer = "fail" THEN None
    ELSE FrameOf(MarketRows(start_date,
                            IF method = "akshare" THEN end_date + 1 ELSE end_date,
                            closed))

\* The database part of _save_to_db_cache (lines 98-105).
save_to_db_cache(d, use_db, symbol, df, interval, upd) ==
    IF ~use_db THEN [db |-> d, exc |-> "none"]
    ELSE IF upd THEN update(d, symbol, df, interval)
    ELSE insert(d, symbol, df, interval)

\* One access of a tier by a call.
Access(tier, op) == <<tier, op>>

\* The frame is not None and not empty.
NonEmpty(df) == df.kind = "frame" /\ df.frame # <<>>

\* get_historical_data (lines 269-319): what the call returns, the accesses
\* it made in their order, and the caches after it.  A file is read back as
\* it was written (_load_from_cache, _save_to_cache).
get_historical_data(symbol, start_date, end_date, interval, answer, closed) ==
    LET p == prepare_params(symbol, start_date, end_date, interval)
        same == [data_cache |-> data_cache, db |-> db, files |-> files]
    IN  IF p.kind = "raise"
        THEN [ret |-> p, key |-> None, cached |-> None, accessed |-> <<>>, after |-> same]
        ELSE
        LET cache_key == get_cache_key(p.symbol, p.start_date, p.end_date, p.interval)
            cached_df == get_from(data_cache, cache_key)
            db_df == IF use_db_cache
                     THEN fetch(db, p.symbol, p.start_date, p.end_date, p.interval)
                     ELSE None
            csv_df == IF use_csv_cache THEN get_from(files, cache_key) ELSE None
            query_df == query_stock_data_from_net(query_method, p.start_date,
                                                  p.end_date, answer, closed)
            saved == save_to_db_cache(db, use_db_cache, p.symbol, query_df.frame,
                                      p.interval, FALSE)
            toMemory == <<Access("memory", "read")>>
            toDb == toMemory \o (IF use_db_cache THEN <<Access("database", "read")>>
                                 ELSE <<>>)
            toFile == toDb \o (IF use_csv_cache THEN <<Access("file", "read")>>
                               ELSE <<>>)
            toNet == toFile \o <<Access("network", "read")>>
            out(ret, accessed, after) ==
                [ret |-> ret, key |-> cache_key, cached |-> cached_df,
                 accessed |-> accessed, after |-> after]
        IN  IF NonEmpty(cached_df) THEN out(cached_df, toMemory, same)
            ELSE IF db_df.kind = "raise" THEN out(db_df, toDb, same)
            ELSE IF NonEmpty(db_df)
            THEN out(db_df, toDb \o <<Access("memory", "write")>>,
                     [same EXCEPT !.data_cache = save_to(data_cache, cache_key, db_df.frame)])
            ELSE IF NonEmpty(csv_df)
            THEN out(csv_df, toFile \o <<Access("memory", "write")>>,
                     [same EXCEPT !.data_cache = save_to(data_cache, cache_key, csv_df.frame)])
            ELSE IF ~NonEmpty(query_df) THEN out(None, toNet, same)
            ELSE out(IF saved.exc = "none" THEN query_df ELSE Raised(saved.exc),
                     toNet \o (IF use_csv_cache THEN <<Access("file", "write")>> ELSE <<>>)
                           \o <<Access("memory", "write")>>
                           \o (IF use_db_cache THEN <<Access("database", "write")>> ELSE <<>>),
                     [data_cache |-> save_to(data_cache, cache_key, query_df.frame),
                      db |-> saved.db,
                      files |-> IF use_csv_cache
                                THEN save_to(files, cache_key, query_df.frame)
                                ELSE files])

\* _adjust_date_range (lines 505-529)
adjust_date_range(adj_start_date, adj_end_date, db_start_date, db_end_date) ==
    IF db_start_date > adj_end_date
    THEN <<adj_start_date, db_start_date - 1>>
    ELSE IF db_end_date < adj_start_date
    THEN <<db_end_date + 1, adj_end_date>>
    ELSE IF adj_start_date < db_start_date /\ db_start_date < adj_end_date
    THEN <<adj_start_date, db_start_date - 1>>
    ELSE IF adj_start_date < db_end_date /\ db_end_date < adj_end_date
    THEN <<db_end_date + 1, adj_end_date>>
    ELSE <<adj_start_date, adj_end_date>>

\* _check_db_record_timestamp (lines 531-548): some row was stored before
\* the close of its day.
check_db_record_timestamp(db_df) ==
    \E k \in 1..Len(db_df) : db_df[k].stamp = "intraday"

\* prepare_db_data (lines 215-267): what the call returns, what it found in
\* the database, the range it asked the network for, and the caches after
\* it.  None has no attribute empty: _check_db_record_timestamp raises when
\* the database has no row in the range, and _process_query_result when the
\* provider failed.
prepare_db_data(symbol, start_date, end_date, interval, answer, closed) ==
    LET p == prepare_params(symbol, start_date, end_date, interval)
        same == [data_cache |-> data_cache, db |-> db, files |-> files]
        early(ret) == [ret |-> ret, params |-> p, db_start_date |-> None,
                       db_end_date |-> None, need_update_data |-> FALSE,
                       queried |-> None, after |-> same]
    IN  IF p.kind = "raise" THEN early(p)
        ELSE IF ~use_db_cache THEN early(BoolOf(FALSE))
        ELSE
        LET db_df == fetch(db, p.symbol, p.start_date, p.end_date, p.interval)
        IN  IF db_df.kind = "raise" THEN early(db_df)
            ELSE IF db_df = None THEN early(Raised("AttributeError"))
            ELSE
            LET need_update_data == check_db_record_timestamp(db_df.frame)
                db_start_date == get_first_date(db, p.symbol, p.interval)
                db_end_date == get_last_date(db, p.symbol, p.interval)
                found == /\ ~need_update_data
                         /\ db_start_date # None
                         /\ db_end_date # None
                contained == /\ found
                             /\ p.start_date >= db_start_date.date
                             /\ db_end_date.date >= p.end_date
                range == IF found
                         THEN adjust_date_range(p.start_date, p.end_date,
                                                db_start_date.date, db_end_date.date)
                         ELSE <<p.start_date, p.end_date>>
                query_df == query_stock_data_from_net(query_method, range[1],
                                                      range[2], answer, closed)
                saved == save_to_db_cache(db, use_db_cache, p.symbol,
                                          query_df.frame, p.interval,
                                          need_update_data)
                out(ret, queried, after) ==
                    [ret |-> ret, params |-> p, db_start_date |-> db_start_date,
                     db_end_date |-> db_end_date,
                     need_update_data |-> need_update_data,
                     queried |-> queried, after |-> after]
                asked == [kind |-> "range", start_date |-> range[1],
                          end_date |-> range[2]]
            IN  IF contained THEN out(BoolOf(FALSE), None, same)
                ELSE IF query_df = None THEN out(Raised("AttributeError"), asked, same)
                ELSE IF query_df.frame = <<>> THEN out(BoolOf(FALSE), asked, same)
                ELSE IF saved.exc # "none"
                THEN out(Raised(saved.exc), asked, [same EXCEPT !.db = saved.db])
                ELSE out(BoolOf(TRUE), asked,
                         [same EXCEPT
                            !.db = saved.db,
                            !.data_cache =
                                save_to(data_cache,
                                        get_cache_key(p.symbol, range[1], range[2],
                                                      p.interval),
                                        query_df.frame)])

\* The symbols and intervals of the callers.
FetchSymbols == {[code |-> "000001", suffix |-> ".SZ"],
                 [code |-> "000001", suffix |-> ""],
                 [code |-> "AAPL", suffix |-> ""]}
FetchIntervals == {"1d", "1h"}
QueryMethods == {"akshare", "yfinance"}
\* What the provider does: it fails, or it answers before or after the close
\* of today.
Answers == {"fail", "open", "closed"}

\* What the calls on the fetcher leave alone.
fetchFrame == <<mode, brick_size, size_kind, atr_period, atr_multiplier, runs,
                optVars, data, current_price, index, num_bricks, direction,
                sigVars, btVars, exc, i, renko_data>>

\* DataFetcher.__init__ (lines 21-47) on a cache directory: the memory cache
\* is empty, the files and the database are those of the directory.
NewDataFetcher ==
    /\ pc = "fetch_idle"
    /\ data_cache' = {}
    /\ use_db_cache' \in BOOLEAN
    /\ use_csv_cache' \in BOOLEAN
    /\ query_method' \in QueryMethods
    /\ last_call' = [op |-> "init"]
    /\ UNCHANGED <<fetchFrame, pc, db, files>>

\* A call of get_historical_data with the given arguments and one of the
\* given answers of the provider.
CallGet(symbol, start_date, end_date, interval, answers) ==
    /\ pc = "fetch_idle"
    /\ \E answer \in answers :
          LET res == get_historical_data(symbol, start_date, end_date, interval,
                                         answer, answer = "closed")
          IN  /\ data_cache' = res.after.data_cache
              /\ db' = res.after.db
              /\ files' = res.after.files
              /\ last_call' = [op |-> "get_historical_data", symbol |-> symbol,
                               start_date |-> start_date, end_date |-> end_date,
                               interval |-> interval, key |-> res.key,
                               cached |-> res.cached, accessed |-> res.accessed,
                               ret |-> res.ret]
    /\ UNCHANGED <<fetchFrame, pc, use_db_cache, use_csv_cache, query_method>>

\* A call of prepare_db_data with the given arguments.
CallPrepare(symbol, start_date, end_date, interval) ==
    /\ pc = "fetch_idle"
    /\ \E answer \in Answers :
          LET res == prepare_db_data(symbol, start_date, end_date, interval,
                                     answer, answer = "closed")
          IN  /\ data_cache' = res.after.data_cache
              /\ db' = res.after.db
              /\ files' = res.after.files
              /\ last_call' = [op |-> "prepare_db_data", symbol |-> symbol,
                               start_date |-> start_date, end_date |-> end_date,
                               interval |-> interval, params |-> res.params,
                               db_start_date |-> res.db_start_date,
                               db_end_date |-> res.db_end_date,
                               need_update_data |-> res.need_update_data,
                               queried |-> res.queried, ret |-> res.ret]
    /\ UNCHANGED <<fetchFrame, pc, use_db_cache, use_csv_cache, query_method>>

\* A fetcher on a fresh cache directory.
InitFetch ==
    /\ mode = "daily" /\ brick_size = 0 /\ size_kind = "none" /\ data = <<>>
    /\ atr_period = 1 /\ atr_multiplier = 1 /\ exc = "none"
    /\ runs = <<>>
    /\ NoOptimizer
    /\ current_price = 0 /\ index = 0 /\ num_bricks = 0 /\ direction = 0
    /\ buy_trend_length = 1 /\ sell_trend_length = 1 /\ position = 0
    /\ renko_data = <<>> /\ signals = <<>> /\ initial_capital = 0
    /\ portfolio = <<>> /\ i = 0
    /\ pc = "fetch_idle"
    /\ data_cache = {} /\ files = {}
    /\ use_db_cache \in BOOLEAN /\ use_csv_cache \in BOOLEAN
    /\ query_method \in QueryMethods
    /\ db = NewDataBase
    /\ last_call = [op |-> "init"]

\* The date ranges of the calls of get_historical_data: Friday to Sunday,
\* and Saturday to today.
GetRanges == {<<5, 7>>, <<6, 8>>}

GetHistoricalData ==
    \E symbol \in FetchSymbols, r \in GetRanges, interval \in FetchIntervals :
        CallGet(symbol, r[1], r[2], interval, {"fail", "closed"})

NextFetch ==
    \/ NewDataFetcher
    \/ GetHistoricalData

\* Calls of get_historical_data on fetchers of one cache directory.
SpecFetch == InitFetch /\ [][NextFetch]_vars

\* The arguments of the calls that prepare the database.
PrepareSymbol == [code |-> "000001", suffix |-> ".SZ"]
StoredRanges == {<<5, 5>>, <<4, 5>>}
PrepareRanges == {<<5, 5>>, <<5, 8>>, <<4, 8>>}

\* The calls of get_historical_data that fill the database.
GetForPrepare ==
    \E r \in StoredRanges : CallGet(PrepareSymbol, r[1], r[2], "1d", Answers)

PrepareDbData ==
    \E r \in PrepareRanges, interval \in {"1d", "1wk"} :
        CallPrepare(PrepareSymbol, r[1], r[2], interval)

NextPrepare ==
    \/ GetForPrepare
    \/ PrepareDbData

\* Calls of prepare_db_data and get_historical_data on one fetcher.
SpecPrepare == InitFetch /\ [][NextPrepare]_vars

\* --------------------------------------------- claims on the brick generator
\* The close the next inner-loop iteration of _atr_brick_logic computes.
NextClose == current_price + direction * brick_size

\* C1: in atr mode, a full-brick step whose new close equals the open or the
\* close of the last brick removes that brick and appends nothing: the brick
\* count drops by one.
C1_MergeCancelsBoth ==
    [][(pc = "brick" /\ MergesWithLast(renko_data, NextClose))
        => Len(renko_data') = Len(renko_data) - 1]_vars

\* C6: in atr mode, at the end of the run with at least one full brick: if
\* the last brick's date differs from the last bar's date exactly one brick
\* is appended, from the last brick's close to the last bar's close, with
\* high/low their max/min, the last bar's date and trend 0; if the dates are
\* equal nothing is appended. Closes [100,103,103] on three distinct dates
\* with size 2 give one up brick 100->102 and one partial brick 102->103.
C6_TrailingPartialBrick ==
    [][/\ (pc = "loop" /\ pc' = "done" /\ mode = "atr" /\ renko_data # <<>>)
          => IF Last(renko_data).date # Last(data).date
             THEN /\ Len(renko_data') = Len(renko_data) + 1
                  /\ Front(renko_data') = renko_data
                  /\ Last(renko_data').open = Last(renko_data).close
                  /\ Last(renko_data').close = Last(data).Close
                  /\ Last(renko_data').high = Max(Last(renko_data).close, Last(data).Close)
                  /\ Last(renko_data').low = Min(Last(renko_data).close, Last(data).Close)
                  /\ Last(renko_data').date = Last(data).date
                  /\ Last(renko_data').trend = 0
             ELSE renko_data' = renko_data
       /\ (/\ pc' = "done" /\ mode = "atr" /\ brick_size = 2
           /\ data = <<[date |-> 1, Close |-> 100], [date |-> 2, Close |-> 103],
                        [date |-> 3, Close |-> 103]>>)
          => renko_data' = <<make_brick(0, 2, 100, 102, 100, 102, 1),
                             make_brick(1, 3, 102, 103, 102, 103, 0)>>
      ]_vars

\* C6 witness: an atr run has ended with a partial brick appended after at
\* least one full brick.
C6_Witness ==
    /\ pc = "done" /\ mode = "atr"
    /\ Len(renko_data) >= 2
    /\ Last(renko_data).trend = 0
    /\ Last(renko_data).close # Last(renko_data).open

\* C7: in atr mode, whenever the last bar's close differs from the final
\* reference price, the output ends with a trend-0 brick closing at the last
\* bar's close (also with no full brick, or a full brick on the last bar).
C7_PartialWheneverUnclosed ==
    (pc = "done" /\ mode = "atr" /\ Last(data).Close # current_price)
        => /\ renko_data # <<>>
           /\ Last(renko_data).trend = 0
           /\ Last(renko_data).close = Last(data).Close

\* C9 as claimed: every step extends the brick sequence (no brick is ever
\* removed or changed).
C9_AppendOnly ==
    [][/\ Len(renko_data') >= Len(renko_data)
       /\ SubSeq(renko_data', 1, Len(renko_data)) = renko_data]_vars

\* C9 amended: no step removes or changes a brick other than the most
\* recently emitted one, and that one is removed only by a step of
\* _atr_brick_logic whose new close equals its open or its close.
C9_AppendOnlyButLast ==
    [][/\ Len(renko_data') >= Len(renko_data) - 1
       /\ \A k \in 1..(Len(renko_data) - 1) : renko_data'[k] = renko_data[k]
       /\ (/\ renko_data # <<>>
           /\ ~(/\ Len(renko_data') >= Len(renko_data)
                /\ renko_data'[Len(renko_data)] = Last(renko_data)))
          => (pc = "brick" /\ MergesWithLast(renko_data, NextClose))]_vars

\* C9 witness: a merge has removed a brick (more bricks were made than are
\* in the list) while earlier bricks remain.
C9_Witness ==
    /\ mode = "atr"
    /\ index > Len(renko_data)
    /\ Len(renko_data) >= 2

\* C10: a bar series with fewer than 2 bars gives an empty brick sequence
\* and no error, in both modes.
C10_ShortSeriesEmpty ==
    Len(data) < 2 => /\ pc # "raised"
                     /\ (pc = "done" => renko_data = <<>>)

\* C24: in atr mode every brick opens at the close of the brick before it,
\* except a brick appended by the step whose merge removed its predecessor.
\* Step by step: a full-brick step without a merge and the step that appends
\* the trailing partial brick put the new brick's open at the previous last
\* brick's close and leave the bricks before it as they are; a merging step
\* replaces the last brick only, so every earlier pair stays as it was.
C24_PriceContinuity ==
    [][(mode = "atr" /\ renko_data # <<>> /\ renko_data' # renko_data) =>
          IF pc = "brick" /\ MergesWithLast(renko_data, NextClose)
          THEN /\ Len(renko_data') = Len(renko_data)
               /\ Front(renko_data') = Front(renko_data)
          ELSE /\ Front(renko_data') = renko_data
               /\ Last(renko_data').open = Last(renko_data).close]_vars

\* An atr run ended with a trailing partial brick and with a brick that a
\* merging step left after a brick it does not continue.
C24_Witness ==
    /\ pc = "done" /\ mode = "atr"
    /\ Len(renko_data) >= 3
    /\ Last(renko_data).trend = 0
    /\ \E k \in 2..Len(renko_data) : renko_data[k].open # renko_data[k - 1].close

\* C25: with bars in non-decreasing date order the bricks are in
\* non-decreasing date order, in both modes, at every point of the run:
\* also after a merge removed a brick and after the trailing partial brick.
C25_MonotonicTimestamps ==
    \A k \in 1..(Len(renko_data) - 1) : renko_data[k].date <= renko_data[k + 1].date

\* An atr run with a merge ended with a partial brick, with two bricks of one
\* date and two of different dates.
C25_Witness ==
    /\ pc = "done" /\ mode = "atr"
    /\ renko_data # <<>>
    /\ index >= Len(renko_data)
    /\ Last(renko_data).trend = 0
    /\ \E k \in 1..(Len(renko_data) - 1) : renko_data[k].date = renko_data[k + 1].date
    /\ \E k \in 1..(Len(renko_data) - 1) : renko_data[k].date < renko_data[k + 1].date

\* C26: at most one brick has trend 0 and that brick is the last one; daily
\* mode has no trend-0 brick.
C26_OnlyLastBrickPartial ==
    /\ \A k \in 1..Len(renko_data) : renko_data[k].trend \in {-1, 0, 1}
    /\ \A k \in 1..(Len(renko_data) - 1) : renko_data[k].trend # 0
    /\ mode = "daily" => \A k \in 1..Len(renko_data) : renko_data[k].trend # 0

\* An atr run ended with a partial brick of no height after full bricks up
\* and down.
C26_Witness ==
    /\ pc = "done" /\ mode = "atr"
    /\ renko_data # <<>>
    /\ Last(renko_data).trend = 0
    /\ Last(renko_data).close = Last(renko_data).open
    /\ \E k \in 1..Len(renko_data) : renko_data[k].trend = 1
    /\ \E k \in 1..Len(renko_data) : renko_data[k].trend = -1

\* The number of rows 2..n of the bar frame whose close differs from the
\* close of the row before.
RECURSIVE ChangedCloses(_, _)
ChangedCloses(d, n) ==
    IF n <= 1 THEN 0
    ELSE ChangedCloses(d, n - 1) + (IF d[n].Close # d[n - 1].Close THEN 1 ELSE 0)

\* C27: daily mode handles each pair of consecutive closes (prev, cur) by
\* appending one brick {open prev, close cur, high cur, low prev, trend +1}
\* if cur > prev, one brick {open prev, close cur, high prev, low cur,
\* trend -1} if cur < prev, and nothing if they are equal; the run returns
\* as many bricks as bars whose close differs from the bar before (closes
\* [100, 100, 100] give none).
C27_DailyBricks ==
    [][mode = "daily" =>
        /\ (pc = "loop" /\ i' = i + 1) =>
              LET prev == data[i].Close
                  cur == data[i + 1].Close
              IN  IF cur > prev
                  THEN renko_data' = Append(renko_data,
                          [index |-> Len(renko_data), date |-> data[i + 1].date,
                           open |-> prev, close |-> cur, high |-> cur,
                           low |-> prev, trend |-> 1])
                  ELSE IF cur < prev
                  THEN renko_data' = Append(renko_data,
                          [index |-> Len(renko_data), date |-> data[i + 1].date,
                           open |-> prev, close |-> cur, high |-> prev,
                           low |-> cur, trend |-> -1])
                  ELSE renko_data' = renko_data
        /\ pc' = "done" =>
              /\ Len(renko_data') = ChangedCloses(data, Len(data))
              /\ (\A k \in 1..Len(data) : data[k].Close = 100) => renko_data' = <<>>
      ]_vars

\* A daily run over three bars closing at 100 returned no brick.
C27_Witness ==
    /\ pc = "done" /\ mode = "daily"
    /\ Len(data) = 3
    /\ \A k \in 1..3 : data[k].Close = 100
    /\ renko_data = <<>>

\* C11: in atr mode without a supplied brick size, a bar frame with fewer
\* than atr_period + 1 rows ends the call with the insufficient-data error:
\* no numeric brick size is set, no step of brick generation is taken and no
\* other exception leaves the call.  (Checked on runs that start without a
\* supplied size.)
C11_InsufficientDataError ==
    (mode = "atr" /\ Len(data) < atr_period + 1) =>
        /\ size_kind # "number"
        /\ pc \in {"start", "raised"}
        /\ (pc = "raised" => exc = "InsufficientDataError")

\* The brick size was computed from the bars and is exactly 0.
ZeroSizeComputed == mode = "atr" /\ size_kind = "number" /\ brick_size = 0

\* C12: in atr mode without a supplied brick size, a computed size of exactly
\* 0 ends generate_renko before any bar is processed: the result is the
\* empty brick sequence, the loop is never entered (no division by the brick
\* size) and no exception is raised.  (Checked on runs that start without a
\* supplied size.)
C12_ZeroSizeAbortsEarly ==
    ZeroSizeComputed =>
        /\ pc = "done"
        /\ renko_data = <<>>
        /\ i = 0
        /\ current_price = 0
        /\ exc = "none"

\* A flat market of at least two bars was sized to 0 and the call returned.
C12_Witness ==
    /\ ZeroSizeComputed
    /\ pc = "done"
    /\ Len(data) >= 2
    /\ renko_data = <<>>

\* The configuration held by the object is one _validate_params must reject.
InvalidConfiguration ==
    \/ mode \notin {"daily", "atr"}
    \/ atr_period <= 0
    \/ atr_multiplier <= 0
    \/ (size_kind = "number" /\ brick_size <= 0)

\* C13: constructing a generator with a mode other than daily/atr, an
\* atr_period <= 0, an atr_multiplier <= 0 or a supplied brick_size <= 0
\* raises the configuration error (ValueError) at once: no bar is read, no
\* brick is produced, and nothing runs after the error.
C13_InvalidConfigurationRejected ==
    [][/\ (pc = "new" /\ InvalidConfiguration) =>
            /\ pc' = "raised"
            /\ exc' = "ValueError"
            /\ renko_data' = <<>>
            /\ i' = 0 /\ index' = 0 /\ current_price' = 0
       /\ (pc = "raised" => UNCHANGED vars)]_vars

\* A generator given bars and a supplied brick size <= 0 failed in __init__.
C13_Witness ==
    /\ pc = "raised"
    /\ exc = "ValueError"
    /\ mode = "atr"
    /\ size_kind = "number" /\ brick_size <= 0
    /\ atr_period > 0 /\ atr_multiplier > 0
    /\ Len(data) >= 2
    /\ i = 0
    /\ renko_data = <<>>

\* -------------------------------------------- claims on the signal generator
\* C5: with W = max(buy_trend_length, sell_trend_length), rows 0..W-2 are
\* HOLD and the rule applies from row W-1: if the first W bricks sum to at
\* least buy_trend_length, BUY is emitted at row W-1.
C5_RuleAppliesFromFullWindow ==
    pc = "sig_done" =>
        LET W == Max(buy_trend_length, sell_trend_length)
        IN  /\ \A k \in 0..(W - 2) : k < Len(signals) => signals[k + 1].signal = 0
            /\ (Len(renko_data) >= W /\ SumTo([k \in 1..W |-> renko_data[k].trend], W)
                                            >= buy_trend_length)
               => signals[W].signal = 1

\* C8: a BUY at brick r ends buy_trend_length consecutive +1 bricks and a
\* SELL at brick r ends sell_trend_length consecutive -1 bricks.
C8_ConsecutiveBricks ==
    pc = "sig_done" =>
        \A r \in 1..Len(signals) :
            /\ signals[r].signal = 1
               => /\ r >= buy_trend_length
                  /\ \A j \in (r - buy_trend_length + 1)..r : renko_data[j].trend = 1
            /\ signals[r].signal = -1
               => /\ r >= sell_trend_length
                  /\ \A j \in (r - sell_trend_length + 1)..r : renko_data[j].trend = -1

\* C16: for a brick frame with rows, calculate_signals returns one row per
\* brick in the bricks' order, each with its brick's index and date and a
\* signal in {-1, 0, 1}; the two frames have the same length.
C16_OneSignalPerBrick ==
    (pc = "sig_done" /\ renko_data # <<>>) =>
        /\ Len(signals) = Len(renko_data)
        /\ \A k \in 1..Len(renko_data) :
              /\ signals[k].index = renko_data[k].index
              /\ signals[k].date = renko_data[k].date
              /\ signals[k].signal \in {-1, 0, 1}

\* A returned frame of at least three rows with a trade and a hold.
C16_Witness ==
    /\ pc = "sig_done"
    /\ Len(renko_data) >= 3
    /\ \E k \in 1..Len(signals) : signals[k].signal # 0
    /\ \E k \in 1..Len(signals) : signals[k].signal = 0

\* The sum of the trends of the W bricks ending at 0-based row r.
TrendSum(rd, r, W) == SumTo([k \in 1..W |-> rd[r - W + 1 + k].trend], W)

\* C17: at every evaluated row r, with T the trend sum of the window ending
\* at r: a BUY is emitted only if T >= buy_trend_length and the state is FLAT,
\* and makes it LONG; a SELL only if T <= -sell_trend_length and the state is
\* LONG, and makes it FLAT; where neither condition holds the signal is 0 and
\* the state is unchanged.  The state starts FLAT, changes only with a
\* non-zero signal, and a step changes no row but r.
C17_SignalRuleSound ==
    [][/\ (pc = "sig_start" /\ pc' = "sig_loop") => position' = 0
       /\ (pc = "sig_loop" /\ i' = i + 1) =>
            LET T == TrendSum(renko_data, i, Max(buy_trend_length, sell_trend_length))
                s == signals'[i + 1].signal
                buy == T >= buy_trend_length /\ position = 0
                sell == T <= -sell_trend_length /\ position = 1
            IN  /\ (s = 1 => buy /\ position' = 1)
                /\ (s = -1 => sell /\ position' = 0)
                /\ ((~buy /\ ~sell) => (s = 0 /\ position' = position))
                /\ (position' # position => s # 0)
                /\ \A k \in 1..Len(signals) : k # i + 1 => signals'[k] = signals[k]]_vars

\* A finished run that emitted a BUY and later a SELL.
C17_Witness ==
    /\ pc = "sig_done"
    /\ \E b, c \in 1..Len(signals) :
          b < c /\ signals[b].signal = 1 /\ signals[c].signal = -1

\* The rows before row k (1-based) that hold a non-zero signal.
TradesBefore(k) == {j \in 1..(k - 1) : signals[j].signal # 0}

\* C18: the non-zero signals alternate, starting with a BUY: the first one
\* is +1 and each later one is the opposite of the one before it.
C18_SignalsAlternate ==
    \A k \in 1..Len(signals) :
        signals[k].signal # 0 =>
            IF TradesBefore(k) = {}
            THEN signals[k].signal = 1
            ELSE LET j == CHOOSE m \in TradesBefore(k) :
                              \A n \in TradesBefore(k) : n <= m
                 IN  signals[k].signal = -signals[j].signal

\* A run with three trades: BUY, SELL, BUY.
C18_Witness ==
    /\ pc = "sig_done"
    /\ Cardinality({k \in 1..Len(signals) : signals[k].signal # 0}) >= 3

\* C14: with a non-positive buy_trend_length or sell_trend_length the call is
\* rejected with the configuration error before any signal is computed: no
\* signal frame is ever built, evaluated or returned.  (Stated for a frame
\* with bricks.)
C14_NonPositiveLengthRejected ==
    (renko_data # <<>> /\ (buy_trend_length <= 0 \/ sell_trend_length <= 0)) =>
        /\ pc \in {"sig_start", "raised"}
        /\ signals = <<>>
        /\ (pc = "raised" => exc = "ValueError")

\* C15: calculate_signals and backtest called on the empty brick sequence a
\* generator returned do not fail with a lookup error (KeyError, IndexError).
C15_EmptyBricksHandled ==
    [][(pc \in {"sig_start", "bt_start"} /\ renko_data = <<>>) =>
          ~(pc' = "raised" /\ exc' \in {"KeyError", "IndexError"})]_vars

\* ------------------------------------------ claims on the portfolio simulator
\* The rows of the portfolio computed so far (1-based).
Computed == IF pc \in {"bt_loop", "bt_done"} THEN 1..i ELSE {}

\* C2: the recorded cash is >= 0 at every step, the buy step with its
\* commission included.
C2_CashNeverNegative ==
    \A r \in Computed : portfolio[r].cash >= 0

\* C3: a BUY signal while FLAT that cannot afford one lot has no effect:
\* position stays FLAT and shares, cash and holdings equal the previous
\* step's.
C3_UnaffordableBuyIsNoOp ==
    \A r \in Computed \ {1} :
        (/\ signals[r].signal = 1
         /\ portfolio[r - 1].position = 0
         /\ (portfolio[r - 1].cash \div (renko_data[r].close * Scale * 100)) * 100 = 0)
        => /\ portfolio[r].position = 0
           /\ portfolio[r].shares = portfolio[r - 1].shares
           /\ portfolio[r].cash = portfolio[r - 1].cash
           /\ portfolio[r].holdings = portfolio[r - 1].holdings

\* C4: at every step shares > 0 iff position = LONG.
C4_SharesIffLong ==
    \A r \in Computed : (portfolio[r].shares > 0) <=> (portfolio[r].position = 1)

\* C19: at every computed step total = cash + holdings; at step 0 cash and
\* total are the initial capital and holdings is 0.
C19_TotalIsCashPlusHoldings ==
    /\ \A r \in Computed :
          portfolio[r].total = portfolio[r].cash + portfolio[r].holdings
    /\ Computed # {} =>
          /\ portfolio[1].cash = initial_capital
          /\ portfolio[1].total = initial_capital
          /\ portfolio[1].holdings = 0

\* A finished run with a step that holds shares whose value differs from the
\* step before, and a later step that is FLAT again.
C19_Witness ==
    /\ pc = "bt_done"
    /\ \E r \in 2..Len(portfolio), q \in 2..Len(portfolio) :
          /\ r < q
          /\ portfolio[r].shares > 0
          /\ portfolio[r - 1].shares > 0
          /\ portfolio[r].holdings # portfolio[r - 1].holdings
          /\ portfolio[q].position = 0

\* C20: at every computed step shares is a non-negative multiple of 100 and
\* position is FLAT (0) or LONG (1); the position changes only from FLAT to
\* LONG on a step with signal +1 and from LONG to FLAT on a step with
\* signal -1.
C20_SharesAndPositionLegal ==
    \A r \in Computed :
        /\ portfolio[r].shares >= 0
        /\ portfolio[r].shares % LOT_SIZE = 0
        /\ portfolio[r].position \in {0, 1}
        /\ (r > 1 /\ portfolio[r].position # portfolio[r - 1].position) =>
              \/ /\ portfolio[r - 1].position = 0
                 /\ portfolio[r].position = 1
                 /\ signals[r].signal = 1
              \/ /\ portfolio[r - 1].position = 1
                 /\ portfolio[r].position = 0
                 /\ signals[r].signal = -1

\* C21: a step with signal +1 while FLAT, at close p with previous cash c,
\* records shares = floor(c / (p * 100)) * 100, holdings = trade_amount =
\* shares * p, cash = c - trade_amount - commission with commission =
\* trade_amount * 0.00009 (exact: the trade amount in 1/1000 units is a
\* multiple of 100000), and position LONG.  With c = 1,000,000 and p = 99:
\* shares 10,100, holdings 999,900, cash 10.009, total 999,910.009.
C21_BuyAccounting ==
    [][(pc = "bt_loop" /\ i' = i + 1 /\ signals[i + 1].signal = 1
            /\ portfolio[i].position = 0) =>
          LET p == renko_data[i + 1].close
              c == portfolio[i].cash
              row == portfolio'[i + 1]
              lots == c \div (p * 100 * Scale)
              trade_amount == lots * 100 * p * Scale
          IN  /\ row.shares = lots * 100
              /\ row.holdings = trade_amount
              /\ trade_amount % 100000 = 0
              /\ row.cash = c - trade_amount - 9 * (trade_amount \div 100000)
              /\ row.position = 1
              /\ (c = 1000000 * Scale /\ p = 99) =>
                    /\ row.shares = 10100
                    /\ row.holdings = 999900000
                    /\ row.cash = 10009
                    /\ row.total = 999910009]_vars

\* The buy of 10,100 shares at 99 with 1,000,000 is recorded.
C21_Witness ==
    \E r \in Computed :
        /\ r > 1
        /\ renko_data[r].close = 99
        /\ portfolio[r - 1].cash = 1000000 * Scale
        /\ portfolio[r].shares = 10100
        /\ portfolio[r].cash = 10009

\* C22: a step with signal -1 while LONG with s shares, at close p, adds
\* exactly sell_amount - commission to the cash, with sell_amount = s * p and
\* commission = sell_amount * 0.0006 (exact: the amount in 1/1000 units is a
\* multiple of 10000), and records shares 0, holdings 0 and position FLAT.
\* With s = 10,100 and p = 110 the cash grows by 1,110,333.40.
C22_SellAccounting ==
    [][(pc = "bt_loop" /\ i' = i + 1 /\ signals[i + 1].signal = -1
            /\ portfolio[i].position = 1) =>
          LET p == renko_data[i + 1].close
              sh == portfolio[i].shares
              row == portfolio'[i + 1]
              sell_amount == sh * p * Scale
          IN  /\ sell_amount % 10000 = 0
              /\ row.cash - portfolio[i].cash =
                     sell_amount - 6 * (sell_amount \div 10000)
              /\ row.shares = 0
              /\ row.holdings = 0
              /\ row.position = 0
              /\ (sh = 10100 /\ p = 110) =>
                    row.cash - portfolio[i].cash = 1110333400]_vars

\* The sale of 10,100 shares at 110 is recorded.
C22_Witness ==
    \E r \in Computed :
        /\ r > 1
        /\ renko_data[r].close = 110
        /\ portfolio[r - 1].shares = 10100
        /\ portfolio[r].position = 0
        /\ portfolio[r].cash = 10009 + 1110333400

\* C23: when backtest runs on the signals calculate_signals produced for the
\* same bricks, every non-zero signal comes with a position change at its
\* index: position_i # position_(i-1) whenever signal_i # 0, whatever the
\* capital; index 0, which has no step before it, never has a signal.
C23_SignalMeansTransition ==
    /\ Computed # {} => signals[1].signal = 0
    /\ \A r \in Computed :
          (r > 1 /\ signals[r].signal # 0) =>
              portfolio[r].position # portfolio[r - 1].position

\* A finished run whose capital buys no lot, with a BUY and a later SELL.
C23_Witness ==
    /\ pc = "bt_done"
    /\ \E r \in 2..Len(portfolio), q \in 2..Len(portfolio) :
          /\ r < q
          /\ signals[r].signal = 1
          /\ portfolio[r].shares = 0
          /\ signals[q].signal = -1
          /\ portfolio[q].position = 0

\* Whether no trade executes on row r: signal 0, +1 while LONG, -1 while FLAT.
NoTrade(r) ==
    \/ signals[r].signal = 0
    \/ signals[r].signal = 1 /\ portfolio[r - 1].position = 1
    \/ signals[r].signal = -1 /\ portfolio[r - 1].position = 0

\* C36: on a computed step without a trade the position, the shares and the
\* cash are those of the step before, and the holdings are shares times the
\* step's close when LONG and 0 when FLAT.
C36_NoTradeStep ==
    \A r \in Computed \ {1} :
        NoTrade(r) =>
            /\ portfolio[r].position = portfolio[r - 1].position
            /\ portfolio[r].shares = portfolio[r - 1].shares
            /\ portfolio[r].cash = portfolio[r - 1].cash
            /\ portfolio[r].holdings =
                   (IF portfolio[r].position = 1
                    THEN portfolio[r].shares * renko_data[r].close * Scale
                    ELSE 0)

\* A finished run with a step that holds shares through a changed close
\* under a repeated buy signal, and a FLAT step with a sell signal.
C36_Witness ==
    /\ pc = "bt_done"
    /\ \E r \in 2..Len(portfolio), q \in 2..Len(portfolio) :
          /\ signals[r].signal = 1
          /\ portfolio[r - 1].position = 1
          /\ portfolio[r].shares > 0
          /\ portfolio[r].holdings # portfolio[r - 1].holdings
          /\ signals[q].signal = -1
          /\ portfolio[q - 1].position = 0

\* ------------------------------------------- claims on fixed-size stepping
\* The close of the bar _atr_brick_logic is working on.
BarClose == data[i + 1].Close

\* C35: with a supplied brick size B the reference price starts at the
\* first bar's close; a bar with close C takes floor(|C - R| / B) full-brick
\* steps, each moving R by exactly B toward C; a bar with |C - R| < B
\* leaves R and the bricks as they are; when a bar is finished |C - R| < B;
\* and R differs from the first close by a multiple of B.
C35_FixedSizeStepping ==
    [][mode = "atr" =>
        /\ (pc = "start" /\ pc' = "loop" => current_price' = data[1].Close)
        /\ (pc = "loop" /\ i < Len(data) =>
              IF Abs(BarClose - current_price) < brick_size
              THEN /\ pc' = "loop" /\ i' = i + 1
                   /\ current_price' = current_price
                   /\ renko_data' = renko_data
              ELSE /\ pc' = "brick"
                   /\ num_bricks' = Abs(BarClose - current_price) \div brick_size)
        /\ (pc = "brick" =>
              /\ Abs(current_price' - current_price) = brick_size
              /\ Abs(BarClose - current_price') =
                     Abs(BarClose - current_price) - brick_size)
        /\ (pc \in {"loop", "brick"} /\ i' = i + 1 =>
              Abs(BarClose - current_price') < brick_size)
        /\ (pc' \in {"loop", "brick", "done"} =>
              (current_price' - data'[1].Close) % brick_size = 0)]_vars

\* A run ended whose reference price left the first close and whose last
\* bar closed less than a brick away from it, after a bar of two steps.
C35_Witness ==
    /\ pc = "done" /\ mode = "atr"
    /\ Abs(current_price - data[1].Close) >= 2 * brick_size
    /\ current_price # Last(data).Close
    /\ Len(renko_data) >= 2

\* C37: with a supplied brick size, while the bars are worked on and the
\* brick list is not empty the reference price is the close of the last
\* brick; the close a step computes is never the last brick's close, and
\* the step replaces the last brick (merge) exactly when its direction is
\* the opposite of the last brick's trend, and appends otherwise.
C37_ReferenceIsLastClose ==
    [][(mode = "atr" /\ pc \in {"loop", "brick"} /\ renko_data # <<>>) =>
        /\ current_price = Last(renko_data).close
        /\ (pc = "brick" =>
              /\ NextClose # Last(renko_data).close
              /\ (NextClose = Last(renko_data).open
                    <=> direction = -Last(renko_data).trend)
              /\ IF direction = -Last(renko_data).trend
                 THEN /\ Len(renko_data') = Len(renko_data)
                      /\ Front(renko_data') = Front(renko_data)
                 ELSE Front(renko_data') = renko_data)]_vars

\* A run in which a step against the last brick's trend replaced that brick
\* and a later step with the trend appended one.
C37_Witness ==
    /\ pc = "brick" /\ mode = "atr"
    /\ Len(renko_data) >= 2
    /\ renko_data[Len(renko_data)].index > renko_data[Len(renko_data) - 1].index + 1
    /\ direction = Last(renko_data).trend

\* C38: in every returned brick sequence the index field of each brick is
\* its 0-based position, also after merges removed bricks.
C38_IndexIsPosition ==
    pc = "done" => \A k \in 1..Len(renko_data) : renko_data[k].index = k - 1

C29_NoStateBetweenCalls ==
    (mode = "atr" /\ Len(runs) = 2 /\ pc \in {"done", "raised"})
        => /\ pc = runs[1].pc
           /\ exc = runs[1].exc
           /\ (pc = "done" => renko_data = runs[1].renko_data)

\* ---------------------------------------------------- claims on the optimizer
\* C30: no exception leaves run_optimization, and once it has ended the
\* results hold an entry for every task whose run cannot fail (a daily task
\* on bars whose close changes at least once), whatever the runs of the
\* other tasks did.
C30_FailingCombinationSkipped ==
    pc # "opt_start" =>
        /\ exc = "none"
        /\ \A k \in 1..Len(tasks) :
               (tasks[k].mode = "daily" /\ ChangedCloses(data, Len(data)) > 0)
                   => \E r \in 1..Len(results) :
                          /\ results[r].mode = "daily"
                          /\ results[r].buy_trend_length = tasks[k].buy_trend_length
                          /\ results[r].sell_trend_length = tasks[k].sell_trend_length

\* Every submitted task is complete: none is queued, every thread is idle.
AllTasksDone ==
    /\ queue = <<>>
    /\ \A t \in Threads : threads[t].pc = "idle"

\* The number of entries of rs that are the entry of task.
RECURSIVE EntriesOf(_, _)
EntriesOf(rs, task) ==
    IF rs = <<>> THEN 0
    ELSE EntriesOf(Front(rs), task) + (IF Last(rs) = ResultOf(task) THEN 1 ELSE 0)

\* C31: under every interleaving of the pool threads, the results list
\* changes only by one entry appended by the thread that holds
\* results_lock, and when every task is complete the list holds exactly
\* one entry for each task that ran through and none for a task that
\* raised.
C31_ResultsUnderLock ==
    [][/\ (results' # results =>
              \E t \in Threads :
                  /\ results_lock = t
                  /\ threads[t].pc = "locked"
                  /\ results' = Append(results, ResultOf(threads[t].task)))
       /\ (AllTasksDone' =>
              \A k \in 1..Len(tasks') :
                  EntriesOf(results', tasks'[k]) =
                      (IF TaskSucceeds(data', tasks'[k]) THEN 1 ELSE 0))]_vars

\* Two threads have completed all tasks, one task raised, and the entries
\* are not in the order of the tasks.
C31_Witness ==
    /\ pc = "opt_wait"
    /\ AllTasksDone
    /\ config.max_threads = 2
    /\ Len(results) >= 2
    /\ Len(results) < Len(tasks)
    /\ \E a, b \in 1..Len(tasks) :
           a < b /\ results[1] = ResultOf(tasks[b]) /\ results[2] = ResultOf(tasks[a])

\* ------------------------------------------------- claims on the database
\* Whether the fetch recorded in call c returned, of the rows d of the
\* database, those of its symbol and interval with a date in its range, in
\* ascending date order with their values, or None when there are none.
FetchedStoredRows(c, d) ==
    LET stored == {r \in d.rows : /\ r.table = c.interval
                                  /\ r.symbol = c.symbol
                                  /\ r.date >= c.start_date
                                  /\ r.date <= c.end_date}
    IN  IF stored = {}
        THEN c.ret = None
        ELSE /\ c.ret.kind = "frame"
             /\ LET f == c.ret.frame
                IN  /\ Len(f) = Cardinality(stored)
                    /\ \A k \in 1..Len(f) :
                          \E r \in stored : /\ r.date = f[k].date
                                            /\ r.value = f[k].value
                                            /\ r.stamp = f[k].stamp
                    /\ \A k \in 1..(Len(f) - 1) : f[k].date < f[k + 1].date

\* C34: a fetch(symbol, start, end, interval) that follows an
\* insert(symbol, rows, interval) which returned gives the stored rows of
\* that symbol whose date lies in [start, end], in ascending date order
\* with the stored values, and None when there is no such row.
C34_FetchReturnsStoredRows ==
    [][(/\ last_call.op = "insert"
        /\ last_call.ret = None
        /\ last_call'.op = "fetch"
        /\ last_call'.symbol = last_call.symbol
        /\ last_call'.interval = last_call.interval)
       => FetchedStoredRows(last_call', db')]_vars

\* ------------------------------------------------------ claims on the fetcher
\* The call the step makes is one of get_historical_data whose arguments
\* passed _prepare_params.
GetStep == last_call'.op = "get_historical_data" /\ last_call'.key # None

\* The non-empty frames a cache holds under a key.
HeldUnder(cache, key) == {e.frame : e \in {c \in cache : c.key = key /\ c.frame # <<>>}}

\* C32: when the memory cache holds a non-empty frame under the key of the
\* adjusted symbol, adjusted start date, adjusted end date and interval,
\* get_historical_data returns that frame, and it reads nothing but the
\* memory cache: the database, the files and the memory cache stay as they
\* were and the network is not asked.
C32_MemoryHitOnly ==
    [][(GetStep /\ HeldUnder(data_cache, last_call'.key) # {})
       => /\ \A df \in HeldUnder(data_cache, last_call'.key) :
                last_call'.ret = FrameOf(df)
          /\ last_call'.accessed = <<Access("memory", "read")>>
          /\ db' = db
          /\ files' = files
          /\ data_cache' = data_cache]_vars

\* A call with a Shenzhen suffix and a Saturday as start date was served
\* from the memory cache.
C32_Witness ==
    /\ last_call.op = "get_historical_data"
    /\ last_call.symbol.suffix = ".SZ"
    /\ last_call.start_date = 6
    /\ NonEmpty(last_call.cached)
    /\ last_call.ret = last_call.cached
    /\ last_call.accessed = <<Access("memory", "read")>>

\* The tiers a fetcher may read, in their order.
EnabledTiers ==
    <<"memory">> \o (IF use_db_cache THEN <<"database">> ELSE <<>>)
                 \o (IF use_csv_cache THEN <<"file">> ELSE <<>>)
                 \o <<"network">>

\* The tiers a call read, in the order of its reads.
IsRead(a) == a[2] = "read"
TiersRead(accessed) ==
    [k \in 1..Len(SelectSeq(accessed, IsRead)) |-> SelectSeq(accessed, IsRead)[k][1]]

\* The call touched the tier.
Touched(accessed, tier) == \E k \in 1..Len(accessed) : accessed[k][1] = tier

\* C40: a call of get_historical_data reads the tiers in the order memory,
\* database, file, network, skipping the disabled ones; when it returns a
\* non-empty frame the memory cache then holds that frame under the key of
\* the request; a call that repeats the arguments of the call before it,
\* which returned a non-empty frame, returns the same frame and reads
\* nothing but the memory cache; and a disabled tier is neither read nor
\* written.
C40_TierOrder ==
    [][GetStep
       => /\ Len(TiersRead(last_call'.accessed)) <= Len(EnabledTiers)
          /\ TiersRead(last_call'.accessed)
               = SubSeq(EnabledTiers, 1, Len(TiersRead(last_call'.accessed)))
          /\ NonEmpty(last_call'.ret)
               => HeldUnder(data_cache', last_call'.key) = {last_call'.ret.frame}
          /\ (/\ last_call.op = "get_historical_data"
              /\ NonEmpty(last_call.ret)
              /\ last_call'.symbol = last_call.symbol
              /\ last_call'.start_date = last_call.start_date
              /\ last_call'.end_date = last_call.end_date
              /\ last_call'.interval = last_call.interval)
               => /\ last_call'.ret = last_call.ret
                  /\ last_call'.accessed = <<Access("memory", "read")>>
                  /\ db' = db
                  /\ files' = files
          /\ ~use_db_cache
               => ~Touched(last_call'.accessed, "database") /\ db' = db
          /\ ~use_csv_cache
               => ~Touched(last_call'.accessed, "file") /\ files' = files]_vars

\* A call went through all four tiers, got rows from the network and left
\* them in the memory cache.
C40_Witness ==
    /\ last_call.op = "get_historical_data"
    /\ TiersRead(last_call.accessed) = <<"memory", "database", "file", "network">>
    /\ NonEmpty(last_call.ret)
    /\ HeldUnder(data_cache, last_call.key) = {last_call.ret.frame}

\* The database holds a row of the symbol for every trading day of the
\* range up to today.
DataReady(d, p) ==
    \A day \in p.start_date..p.end_date :
        (is_workday(day) /\ day <= Today)
        => \E r \in d.rows : /\ r.table = get_hist_data_table(p.interval)
                             /\ r.symbol = p.symbol
                             /\ r.date = day

\* C33: when prepare_db_data, on a fetcher that uses the database, returns
\* and the database then holds the rows of the requested range, it has
\* returned True.
C33_TrueWhenReady ==
    (/\ last_call.op = "prepare_db_data"
     /\ use_db_cache
     /\ last_call.ret.kind = "bool"
     /\ DataReady(db, last_call.params))
    => last_call.ret = BoolOf(TRUE)

\* C39: when prepare_db_data found rows of the symbol from db_start to
\* db_end, the requested range is not inside them and the network is asked,
\* every day of the requested range is in the range asked for or between
\* db_start and db_end.
C39_FetchedRangeCovers ==
    (/\ last_call.op = "prepare_db_data"
     /\ last_call.db_start_date # None
     /\ last_call.db_end_date # None
     /\ last_call.queried # None
     /\ ~(/\ last_call.params.start_date >= last_call.db_start_date.date
          /\ last_call.db_end_date.date >= last_call.params.end_date))
    => \A day \in last_call.params.start_date..last_call.params.end_date :
          \/ day \in last_call.queried.start_date..last_call.queried.end_date
          \/ day \in last_call.db_start_date.date..last_call.db_end_date.date
====
